---- MODULE Spec2Model ----
(***************************************************************************)
(* Warehouse stock ledger: the REST backend of server.js as a state        *)
(* machine.  The state is the three SQLite tables; every route handler is  *)
(* one action (or, in the interleaved specification, one action per        *)
(* asynchronous database call of the handler).                             *)
(*                                                                         *)
(* JSON values.  A body field that may be absent / null is a sequence of   *)
(* length <= 1: <<>> is undefined or null, <<v>> carries v.  Weights are   *)
(* integers counting half kilograms (0.5 kg is exact in a JS double, so    *)
(* the integer arithmetic below is the arithmetic the handler performs).  *)
(***************************************************************************)
EXTENDS Integers, Sequences, FiniteSets, TLC

\* The server: the three tables, the id sequence of users, the last response
\* sent and the POST /api/movements handlers waiting on the database.
VARIABLES stockMovements, users, userSeq, clients, resp, inflight

\* One browser running index.tsx: its module-level variables cache (the
\* array stockMovements), uiUsers (the array users), currentUser and
\* isAppLoading, the localStorage entry remembered, and the mark-read
\* requests it has sent and not yet seen settled.
VARIABLES cache, uiUsers, currentUser, remembered, isAppLoading, pending

ui == <<cache, uiUsers, currentUser, remembered, isAppLoading, pending>>

vars == <<stockMovements, users, userSeq, clients, resp, inflight,
          cache, uiUsers, currentUser, remembered, isAppLoading, pending>>

----------------------------------------------------------------------------
(* Bounds *)

MaxRows == 3

MaxApiRows == 2

MaxRaceRows == 3

MaxInFlight == 2

MaxFoldRows == 3

MaxClients == 1

MaxUserId == 2

MaxUiRows == 2

----------------------------------------------------------------------------
(* JSON helpers *)

Null == <<>>

Some(v) == <<v>>

\* JS truthiness of an optional number: undefined, null and 0 are falsy.
TruthyNum(v) == v # Null /\ v[1] # 0

\* JS truthiness of an optional string: undefined, null and "" are falsy.
TruthyStr(v) == v # Null /\ v[1] # ""

\* `x || 0` on an optional number.
OrZero(v) == IF TruthyNum(v) THEN v[1] ELSE 0

\* A JSON value whose type the handler tests with typeof: <<>> is an absent
\* field, otherwise <<type, value>>.
JString(s) == <<"string", s>>

JBoolean(b) == <<"boolean", b>>

JNumber(n) == <<"number", n>>

typeof(v) == IF v = <<>> THEN "undefined" ELSE v[1]

\* `!!x` on a stored BOOLEAN column (NULL, 0 or 1).
NotNot(v) == TruthyNum(v)

Digit(d) ==
    CASE d = 0 -> "0" [] d = 1 -> "1" [] d = 2 -> "2" [] d = 3 -> "3"
      [] d = 4 -> "4" [] d = 5 -> "5" [] d = 6 -> "6" [] d = 7 -> "7"
      [] d = 8 -> "8" [] OTHER -> "9"

RECURSIVE NatStr(_)
NatStr(n) == IF n < 10 THEN Digit(n) ELSE NatStr(n \div 10) \o Digit(n % 10)

\* Template-literal rendering `${n}` of an integer.
NumStr(n) == IF n < 0 THEN "-" \o NatStr(0 - n) ELSE NatStr(n)

\* Number.prototype.toFixed(2) of a weight given in half kilograms.
toFixed2(w) ==
    LET a == IF w < 0 THEN 0 - w ELSE w
    IN  (IF w < 0 THEN "-" ELSE "") \o NatStr(a \div 2)
            \o (IF a % 2 = 0 THEN ".00" ELSE ".50")

----------------------------------------------------------------------------
(* Balance calculators *)

\* multiplier with the two signs exchanged.
multiplier_SignsSwapped(movement) == IF movement.type = "in" THEN -1 ELSE 1

multiplier(movement) == IF movement.type = "in" THEN 1 ELSE -1

\* if (movement.plasticBoxCount) { ... += count * multiplier }
BoxTerm(count, movement) ==
    IF TruthyNum(count) THEN count[1] * multiplier(movement) ELSE 0

RECURSIVE ForEachSummary(_, _)
ForEachSummary(movements, summary) ==
    IF movements = <<>> THEN summary
    ELSE LET movement == Head(movements)
         IN  ForEachSummary(Tail(movements),
                [totalWeight   |-> summary.totalWeight
                                     + movement.totalWeight * multiplier(movement),
                 productWeight |-> summary.productWeight
                                     + movement.productWeight * multiplier(movement),
                 plasticBoxes  |-> summary.plasticBoxes
                                     + BoxTerm(movement.plasticBoxCount, movement),
                 woodBoxes     |-> summary.woodBoxes
                                     + BoxTerm(movement.woodBoxCount, movement)])

getClientStockSummary(table, clientId) ==
    ForEachSummary(SelectSeq(table, LAMBDA m : m.clientId = clientId),
                   [totalWeight |-> 0, productWeight |-> 0,
                    plasticBoxes |-> 0, woodBoxes |-> 0])

RECURSIVE ReduceStock(_, _)
ReduceStock(movements, acc) ==
    IF movements = <<>> THEN acc
    ELSE ReduceStock(Tail(movements),
                     acc + Head(movements).productWeight * multiplier(Head(movements)))

\* getProductStockForClient comparing product names without regard to case.
getProductStockForClient_IgnoringCase(table, clientId, product) ==
    ReduceStock(SelectSeq(table, LAMBDA m : /\ m.clientId = clientId
                                            /\ {m.product, product} \subseteq {"A", "a"}), 0)

getProductStockForClient(table, clientId, product) ==
    ReduceStock(SelectSeq(table, LAMBDA m : m.clientId = clientId /\ m.product = product), 0)

----------------------------------------------------------------------------
(* POST /api/movements *)

Response(status, message, available, requested, body) ==
    [status |-> status, message |-> message, available |-> available,
     requested |-> requested, body |-> body]

NoResponse == Response(0, "", "", "", Null)

\* MissingRequired accepting a totalWeight of 0.
MissingRequired_ZeroWeightAllowed(req) ==
    \/ ~TruthyNum(req.clientId)
    \/ ~TruthyStr(req.type)
    \/ ~TruthyStr(req.product)
    \/ req.totalWeight = Null
    \/ ~TruthyNum(req.recordedByUserId)

MissingRequired(req) ==
    \/ ~TruthyNum(req.clientId)
    \/ ~TruthyStr(req.type)
    \/ ~TruthyStr(req.product)
    \/ ~TruthyNum(req.totalWeight)
    \/ ~TruthyNum(req.recordedByUserId)

pBoxCount(req) == OrZero(req.plasticBoxCount)

pBoxWeight(req) == OrZero(req.plasticBoxWeight)

wBoxCount(req) == OrZero(req.woodBoxCount)

wBoxWeight(req) == OrZero(req.woodBoxWeight)

productWeight(req) ==
    req.totalWeight[1] - (pBoxCount(req) * pBoxWeight(req))
                       - (wBoxCount(req) * wBoxWeight(req))

\* CheckFields without the negative-net-weight refusal.
CheckFields_NoNetCheck(req) ==
    IF MissingRequired(req)
    THEN Some(Response(400, "Missing required fields for movement.", "", "", Null))
    ELSE Null

\* Lines 279-291: the synchronous checks.  Null when the request passes.
CheckFields(req) ==
    IF MissingRequired(req)
    THEN Some(Response(400, "Missing required fields for movement.", "", "", Null))
    ELSE IF productWeight(req) < 0
    THEN Some(Response(400, "Le poids net du produit est negatif.", "", "", Null))
    ELSE Null

\* CheckProductStock against the client's stock over all its products.
CheckProductStock_ClientWide(req, table) ==
    LET availableProductStock ==
            getClientStockSummary(table, req.clientId[1]).productWeight
    IN  IF productWeight(req) > availableProductStock
        THEN Some(Response(400, "Stock de produit net insuffisant.",
                           toFixed2(availableProductStock),
                           toFixed2(productWeight(req)), Null))
        ELSE Null

\* CheckProductStock refusing a withdrawal equal to the available stock.
CheckProductStock_RejectsEqual(req, table) ==
    LET availableProductStock ==
            getProductStockForClient(table, req.clientId[1], req.product[1])
    IN  IF productWeight(req) >= availableProductStock
        THEN Some(Response(400, "Stock de produit net insuffisant.",
                           toFixed2(availableProductStock),
                           toFixed2(productWeight(req)), Null))
        ELSE Null

\* Lines 295-298: the product-scoped stock check of an 'out' request.
CheckProductStock(req, table) ==
    LET availableProductStock ==
            getProductStockForClient(table, req.clientId[1], req.product[1])
    IN  IF productWeight(req) > availableProductStock
        THEN Some(Response(400, "Stock de produit net insuffisant.",
                           toFixed2(availableProductStock),
                           toFixed2(productWeight(req)), Null))
        ELSE Null

\* CheckBoxStock without the wood-box comparison.
CheckBoxStock_NoWoodCheck(req, table) ==
    LET clientStock == getClientStockSummary(table, req.clientId[1])
    IN  IF pBoxCount(req) > clientStock.plasticBoxes
        THEN Some(Response(400, "Stock de box en plastique insuffisant.",
                           NumStr(clientStock.plasticBoxes),
                           NumStr(pBoxCount(req)), Null))
        ELSE Null

\* Lines 299-305: the client-wide box checks of an 'out' request.
CheckBoxStock(req, table) ==
    LET clientStock == getClientStockSummary(table, req.clientId[1])
    IN  IF pBoxCount(req) > clientStock.plasticBoxes
        THEN Some(Response(400, "Stock de box en plastique insuffisant.",
                           NumStr(clientStock.plasticBoxes),
                           NumStr(pBoxCount(req)), Null))
        ELSE IF wBoxCount(req) > clientStock.woodBoxes
        THEN Some(Response(400, "Stock de box en bois insuffisant.",
                           NumStr(clientStock.woodBoxes),
                           NumStr(wBoxCount(req)), Null))
        ELSE Null

\* String.prototype.trim on the comments the model sends.
trim(s) ==
    CASE s = " " -> ""
      [] s = " note " -> "note"
      [] OTHER -> s

\* Lines 311-318: the parameters of the INSERT, with the id SQLite assigns.
\* farmerComment and isCommentRead are not in the column list and stay NULL.
InsertParams(req, id, today) ==
    [id               |-> id,
     clientId         |-> req.clientId[1],
     type             |-> req.type[1],
     product          |-> req.product[1],
     totalWeight      |-> req.totalWeight[1],
     productWeight    |-> productWeight(req),
     plasticBoxCount  |-> IF pBoxCount(req) > 0 THEN Some(pBoxCount(req)) ELSE Null,
     plasticBoxWeight |-> IF pBoxCount(req) > 0 THEN Some(pBoxWeight(req)) ELSE Null,
     woodBoxCount     |-> IF wBoxCount(req) > 0 THEN Some(wBoxCount(req)) ELSE Null,
     woodBoxWeight    |-> IF wBoxCount(req) > 0 THEN Some(wBoxWeight(req)) ELSE Null,
     date             |-> today,
     recordedByUserId |-> req.recordedByUserId[1],
     comment          |-> IF req.comment # Null /\ trim(req.comment[1]) # ""
                          THEN Some(trim(req.comment[1])) ELSE Null,
     farmerComment    |-> Null,
     isCommentRead    |-> Null]

\* AUTOINCREMENT: rows are never deleted, so the next id is the row count + 1.
NextMovementId(table) == Len(table) + 1

\* Validate running the stock checks for every type.
Validate_ChecksEveryType(req, table) ==
    LET fields == CheckFields(req)
    IN  IF fields # Null THEN fields
        ELSE LET product == CheckProductStock(req, table)
             IN  IF product # Null THEN product ELSE CheckBoxStock(req, table)

\* Validate running the box checks before the product check.
Validate_BoxesFirst(req, table) ==
    LET fields == CheckFields(req)
    IN  IF fields # Null THEN fields
        ELSE IF req.type[1] # "out" THEN Null
        ELSE LET boxes == CheckBoxStock(req, table)
             IN  IF boxes # Null THEN boxes ELSE CheckProductStock(req, table)

\* The whole validation of lines 279-309 against one snapshot of the table.
Validate(req, table) ==
    LET fields == CheckFields(req)
    IN  IF fields # Null THEN fields
        ELSE IF req.type[1] # "out" THEN Null
        ELSE LET product == CheckProductStock(req, table)
             IN  IF product # Null THEN product ELSE CheckBoxStock(req, table)

\* PostMovementResult storing the row of a refused request as well.
PostMovementResult_StoresRefused(req, table, today) ==
    LET rejection == Validate(req, table)
        row == InsertParams(req, NextMovementId(table), today)
    IN  IF rejection # Null /\ ~MissingRequired(req)
        THEN [resp |-> rejection[1], table |-> Append(table, row)]
        ELSE IF rejection # Null
        THEN [resp |-> rejection[1], table |-> table]
        ELSE [resp |-> Response(201, "", "", "", Some(row)),
              table |-> Append(table, row)]

\* What the handler answers and leaves in the table when nothing else runs
\* between its database calls (lines 276-328).
PostMovementResult(req, table, today) ==
    LET rejection == Validate(req, table)
        row == InsertParams(req, NextMovementId(table), today)
    IN  IF rejection # Null
        THEN [resp |-> rejection[1], table |-> table]
        ELSE [resp |-> Response(201, "", "", "", Some(row)),
              table |-> Append(table, row)]

\* maxRows caps the table so that the state space is finite.
PostMovement(req, today, maxRows) ==
    /\ inflight = <<>>
    /\ LET result == PostMovementResult(req, stockMovements, today)
       IN  /\ result.resp.status = 201 => Len(stockMovements) < maxRows
           /\ stockMovements' = result.table
           /\ resp' = result.resp
    /\ UNCHANGED <<users, userSeq, clients, inflight>>
    /\ UNCHANGED ui

----------------------------------------------------------------------------
(* POST /api/movements, one action per asynchronous step *)

\* Between its awaits the handler keeps req, the derived productWeight and,
\* once read, availableProductStock and clientStock in local variables.
\* inflight maps a connection to those locals and the step it waits for.
Handler(req, pc, available, clientStock, today) ==
    [req |-> req, pc |-> pc, availableProductStock |-> available,
     clientStock |-> clientStock, date |-> today]

Without(f, s) == [t \in DOMAIN f \ {s} |-> f[t]]

With(f, s, v) == [t \in DOMAIN f \cup {s} |-> IF t = s THEN v ELSE f[t]]

\* Lines 277-294: the synchronous part, up to the first await.
Receive(s, req, today) ==
    /\ s \notin DOMAIN inflight
    /\ LET fields == CheckFields(req)
       IN  IF fields # Null
           THEN /\ resp' = fields[1]
                /\ UNCHANGED inflight
           ELSE /\ inflight' = With(inflight, s,
                      Handler(req, IF req.type[1] = "out" THEN "productStock" ELSE "insert",
                              Null, Null, today))
                /\ UNCHANGED resp
    /\ UNCHANGED <<stockMovements, users, userSeq, clients>>
    /\ UNCHANGED ui

\* Lines 295-298: getProductStockForClient resolves.
ReadProductStock(s) ==
    /\ s \in DOMAIN inflight
    /\ inflight[s].pc = "productStock"
    /\ LET req == inflight[s].req
           rejection == CheckProductStock(req, stockMovements)
       IN  IF rejection # Null
           THEN /\ resp' = rejection[1]
                /\ inflight' = Without(inflight, s)
           ELSE /\ inflight' = With(inflight, s,
                      [inflight[s] EXCEPT
                          !.pc = "clientStock",
                          !.availableProductStock =
                              Some(getProductStockForClient(stockMovements,
                                       req.clientId[1], req.product[1]))])
                /\ UNCHANGED resp
    /\ UNCHANGED <<stockMovements, users, userSeq, clients>>
    /\ UNCHANGED ui

\* Lines 299-305: getClientStockSummary resolves.
ReadClientStock(s) ==
    /\ s \in DOMAIN inflight
    /\ inflight[s].pc = "clientStock"
    /\ LET req == inflight[s].req
           rejection == CheckBoxStock(req, stockMovements)
       IN  IF rejection # Null
           THEN /\ resp' = rejection[1]
                /\ inflight' = Without(inflight, s)
           ELSE /\ inflight' = With(inflight, s,
                      [inflight[s] EXCEPT
                          !.pc = "insert",
                          !.clientStock =
                              Some(getClientStockSummary(stockMovements, req.clientId[1]))])
                /\ UNCHANGED resp
    /\ UNCHANGED <<stockMovements, users, userSeq, clients>>
    /\ UNCHANGED ui

\* RunInsert reading the stock again in the statement that inserts.
RunInsert_Revalidates(s) ==
    /\ s \in DOMAIN inflight
    /\ inflight[s].pc = "insert"
    /\ LET result == PostMovementResult(inflight[s].req, stockMovements, inflight[s].date)
       IN  /\ result.resp.status = 201 => Len(stockMovements) < MaxRaceRows
           /\ stockMovements' = result.table
           /\ resp' = result.resp
    /\ inflight' = Without(inflight, s)
    /\ UNCHANGED <<users, userSeq, clients>>
    /\ UNCHANGED ui

\* Lines 311-326: the INSERT runs and the stored row is returned.
RunInsert(s) ==
    /\ s \in DOMAIN inflight
    /\ inflight[s].pc = "insert"
    /\ Len(stockMovements) < MaxRaceRows
    /\ LET row == InsertParams(inflight[s].req, NextMovementId(stockMovements),
                               inflight[s].date)
       IN  /\ stockMovements' = Append(stockMovements, row)
           /\ resp' = Response(201, "", "", "", Some(row))
    /\ inflight' = Without(inflight, s)
    /\ UNCHANGED <<users, userSeq, clients>>
    /\ UNCHANGED ui

----------------------------------------------------------------------------
(* PATCH /api/movements/:id *)

\* PatchUpdates in which marking a comment read also clears the comment.
PatchUpdates_ReadClearsComment(body) ==
    (IF typeof(body.farmerComment) = "string"
     THEN << <<"farmerComment", Some(body.farmerComment[2])>>,
             <<"isCommentRead", Some(0)>> >>
     ELSE <<>>)
    \o
    (IF typeof(body.isCommentRead) = "boolean"
     THEN << <<"isCommentRead", Some(IF body.isCommentRead[2] THEN 1 ELSE 0)>>,
             <<"farmerComment", Null>> >>
     ELSE <<>>)

\* PatchUpdates in which a farmerComment of any JSON type is written.
PatchUpdates_AnyFarmerComment(body) ==
    (IF typeof(body.farmerComment) # "undefined"
     THEN << <<"farmerComment", Some(body.farmerComment[2])>>,
             <<"isCommentRead", Some(0)>> >>
     ELSE <<>>)
    \o
    (IF typeof(body.isCommentRead) = "boolean"
     THEN << <<"isCommentRead", Some(IF body.isCommentRead[2] THEN 1 ELSE 0)>> >>
     ELSE <<>>)

\* Lines 334-345: the SET list, in the order the handler pushes it.
PatchUpdates(body) ==
    (IF typeof(body.farmerComment) = "string"
     THEN << <<"farmerComment", Some(body.farmerComment[2])>>,
             <<"isCommentRead", Some(0)>> >>
     ELSE <<>>)
    \o
    (IF typeof(body.isCommentRead) = "boolean"
     THEN << <<"isCommentRead", Some(IF body.isCommentRead[2] THEN 1 ELSE 0)>> >>
     ELSE <<>>)

\* SQLite UPDATE ... SET: when a column is named more than once, the rightmost
\* assignment is the one applied.
RECURSIVE ApplySet(_, _)
ApplySet(row, updates) ==
    IF updates = <<>> THEN row
    ELSE ApplySet([row EXCEPT ![Head(updates)[1]] = Head(updates)[2]], Tail(updates))

\* UpdateMovement without the WHERE clause.
UpdateMovement_EveryRow(table, movementId, updates) ==
    [i \in 1..Len(table) |-> ApplySet(table[i], updates)]

UpdateMovement(table, movementId, updates) ==
    [i \in 1..Len(table) |->
        IF table[i].id = movementId THEN ApplySet(table[i], updates) ELSE table[i]]

HasMovement(table, movementId) == \E i \in 1..Len(table) : table[i].id = movementId

\* Lines 330-362.
PatchMovementResult(movementId, body, table) ==
    LET updates == PatchUpdates(body)
        updated == UpdateMovement(table, movementId, updates)
        row == updated[CHOOSE i \in 1..Len(table) : table[i].id = movementId]
    IN  IF Len(updates) = 0
        THEN [resp |-> Response(400, "No fields to update", "", "", Null), table |-> table]
        ELSE IF ~HasMovement(table, movementId)
        THEN [resp |-> Response(404, "Movement not found.", "", "", Null), table |-> table]
        ELSE [resp |-> Response(200, "", "", "",
                          Some([row EXCEPT !.isCommentRead = NotNot(row.isCommentRead)])),
              table |-> updated]

PatchMovement(movementId, body) ==
    /\ inflight = <<>>
    /\ LET result == PatchMovementResult(movementId, body, stockMovements)
       IN  /\ stockMovements' = result.table
           /\ resp' = result.resp
    /\ UNCHANGED <<users, userSeq, clients, inflight>>
    /\ UNCHANGED ui

----------------------------------------------------------------------------
(* POST /api/clients *)

\* Lines 144-159.
PostClient(body, today) ==
    /\ inflight = <<>>
    /\ IF \/ ~TruthyStr(body.name) \/ ~TruthyStr(body.type) \/ ~TruthyStr(body.phone)
          \/ ~TruthyStr(body.address) \/ ~TruthyStr(body.email)
       THEN /\ resp' = Response(400, "Missing required client fields.", "", "", Null)
            /\ UNCHANGED clients
       ELSE /\ Len(clients) < MaxClients
            /\ LET row == [id |-> Len(clients) + 1, name |-> body.name[1],
                           type |-> body.type[1], phone |-> body.phone[1],
                           address |-> body.address[1], email |-> body.email[1],
                           comment |-> body.comment, joinDate |-> today]
               IN  /\ clients' = Append(clients, row)
                   /\ resp' = Response(201, "", "", "", Some(row))
    /\ UNCHANGED <<stockMovements, users, userSeq, inflight>>
    /\ UNCHANGED ui

----------------------------------------------------------------------------
(* Users and login *)

\* bcrypt.hash: the stored value is not the password, and determines it.
Hash(password) == <<"bcrypt", password>>

\* bcrypt.compare
Compare(password, hash) == hash = Hash(password)

\* SQL lower() on the user names the model uses.
lower(s) ==
    CASE s = "Admin" -> "admin"
      [] s = "Bob" -> "bob"
      [] OTHER -> s

\* The columns every user route selects: all but the password.
Public(user) ==
    [id |-> user.id, username |-> user.username, name |-> user.name,
     role |-> user.role, status |-> user.status, clientId |-> user.clientId]

UserById(table, userId) == CHOOSE u \in table : u.id = userId

HasUser(table, userId) == \E u \in table : u.id = userId

\* LoginResult without the refusal of suspended accounts.
LoginResult_AdmitsSuspended(body, table) ==
    IF ~TruthyStr(body.username) \/ ~TruthyStr(body.password) \/ ~TruthyStr(body.role)
    THEN Response(400, "Username, password, and role are required.", "", "", Null)
    ELSE LET found == { u \in table : /\ lower(u.username) = lower(body.username[1])
                                      /\ u.role = body.role[1] }
         IN  IF found = {}
             THEN Response(401, "Invalid credentials or role.", "", "", Null)
             ELSE LET user == CHOOSE u \in found : \A v \in found : u.id <= v.id
                  IN  IF ~Compare(body.password[1], user.password)
                      THEN Response(401, "Invalid credentials or role.", "", "", Null)
                      ELSE Response(200, "", "", "", Some(Public(user)))

\* Lines 163-180: what the handler answers for a body, given the users table.
\* db.get returns the first matching row of a scan in rowid order.
LoginResult(body, table) ==
    IF ~TruthyStr(body.username) \/ ~TruthyStr(body.password) \/ ~TruthyStr(body.role)
    THEN Response(400, "Username, password, and role are required.", "", "", Null)
    ELSE LET found == { u \in table : /\ lower(u.username) = lower(body.username[1])
                                      /\ u.role = body.role[1] }
         IN  IF found = {}
             THEN Response(401, "Invalid credentials or role.", "", "", Null)
             ELSE LET user == CHOOSE u \in found : \A v \in found : u.id <= v.id
                  IN  IF ~Compare(body.password[1], user.password)
                      THEN Response(401, "Invalid credentials or role.", "", "", Null)
                      ELSE IF user.status = "Suspended"
                      THEN Response(403, "This account has been suspended.", "", "", Null)
                      ELSE Response(200, "", "", "", Some(Public(user)))

\* Login reads the users table and writes nothing.
Login(body) ==
    /\ inflight = <<>>
    /\ resp' = LoginResult(body, users)
    /\ UNCHANGED <<stockMovements, users, userSeq, clients, inflight>>
    /\ UNCHANGED ui

\* Lines 189-212.
PostUser(body) ==
    /\ inflight = <<>>
    /\ IF \/ ~TruthyStr(body.name) \/ ~TruthyStr(body.username)
          \/ ~TruthyStr(body.password) \/ ~TruthyStr(body.role)
       THEN /\ resp' = Response(400, "Missing required fields for new user.", "", "", Null)
            /\ UNCHANGED <<users, userSeq>>
       ELSE IF \E u \in users : u.username = body.username[1]
       THEN /\ resp' = Response(409, "Username already exists.", "", "", Null)
            /\ UNCHANGED <<users, userSeq>>
       ELSE /\ userSeq < MaxUserId
            /\ LET row == [id |-> userSeq + 1, username |-> body.username[1],
                           name |-> body.name[1], role |-> body.role[1],
                           status |-> "Active", password |-> Hash(body.password[1]),
                           clientId |-> IF body.role[1] = "Agriculteur"
                                        THEN body.clientId ELSE Null]
               IN  /\ users' = users \cup {row}
                   /\ userSeq' = userSeq + 1
                   /\ resp' = Response(201, "", "", "", Some(Public(row)))
    /\ UNCHANGED <<stockMovements, clients, inflight>>
    /\ UNCHANGED ui

\* PutUpdates writing the clientId of the body whatever the role.
PutUpdates_ClientIdAsGiven(body) ==
    (IF TruthyStr(body.name) THEN << <<"name", body.name[1]>> >> ELSE <<>>)
    \o (IF TruthyStr(body.username) THEN << <<"username", body.username[1]>> >> ELSE <<>>)
    \o (IF TruthyStr(body.role) THEN << <<"role", body.role[1]>> >> ELSE <<>>)
    \o (IF TruthyStr(body.status) THEN << <<"status", body.status[1]>> >> ELSE <<>>)
    \o << <<"clientId", body.clientId>> >>
    \o (IF TruthyStr(body.password)
        THEN << <<"password", Hash(body.password[1])>> >> ELSE <<>>)

\* Lines 218-231: the SET list of PUT /api/users/:id.
PutUpdates(body) ==
    (IF TruthyStr(body.name) THEN << <<"name", body.name[1]>> >> ELSE <<>>)
    \o (IF TruthyStr(body.username) THEN << <<"username", body.username[1]>> >> ELSE <<>>)
    \o (IF TruthyStr(body.role) THEN << <<"role", body.role[1]>> >> ELSE <<>>)
    \o (IF TruthyStr(body.status) THEN << <<"status", body.status[1]>> >> ELSE <<>>)
    \o << <<"clientId", IF body.role = Some("Agriculteur") THEN body.clientId ELSE Null>> >>
    \o (IF TruthyStr(body.password)
        THEN << <<"password", Hash(body.password[1])>> >> ELSE <<>>)

\* Lines 233-247: the answer and the users table the handler leaves.  A
\* username already held by another row fails the UNIQUE constraint.
PutUserResult(userId, body, table) ==
    LET updates == PutUpdates(body)
        updated == ApplySet(UserById(table, userId), updates)
    IN  IF Len(updates) = 0
        THEN [resp |-> Response(400, "No fields to update.", "", "", Null), users |-> table]
        ELSE IF ~HasUser(table, userId)
        THEN [resp |-> Response(404, "User not found.", "", "", Null), users |-> table]
        ELSE IF \E u \in table : u.id # userId /\ u.username = updated.username
        THEN [resp |-> Response(500, "Database error", "", "", Null), users |-> table]
        ELSE [resp |-> Response(200, "", "", "", Some(Public(updated))),
              users |-> (table \ {UserById(table, userId)}) \cup {updated}]

\* Lines 214-248.
PutUser(userId, body) ==
    /\ inflight = <<>>
    /\ LET result == PutUserResult(userId, body, users)
       IN  /\ users' = result.users
           /\ resp' = result.resp
    /\ UNCHANGED <<stockMovements, userSeq, clients, inflight>>
    /\ UNCHANGED ui

\* DeleteUserResult without the refusal for administrators.
DeleteUserResult_NoAdminGuard(userId, table) ==
    IF ~HasUser(table, userId)
    THEN [resp |-> Response(404, "User not found", "", "", Null), users |-> table]
    ELSE [resp |-> Response(204, "", "", "", Null),
          users |-> table \ {UserById(table, userId)}]

\* Lines 252-260: the answer and the users table the handler leaves.
DeleteUserResult(userId, table) ==
    IF ~HasUser(table, userId)
    THEN [resp |-> Response(404, "User not found", "", "", Null), users |-> table]
    ELSE IF UserById(table, userId).role = "Admin"
    THEN [resp |-> Response(403, "Cannot delete an admin user.", "", "", Null),
          users |-> table]
    ELSE [resp |-> Response(204, "", "", "", Null),
          users |-> table \ {UserById(table, userId)}]

\* Lines 250-263.
DeleteUser(userId) ==
    /\ inflight = <<>>
    /\ LET result == DeleteUserResult(userId, users)
       IN  /\ users' = result.users
           /\ resp' = result.resp
    /\ UNCHANGED <<stockMovements, userSeq, clients, inflight>>
    /\ UNCHANGED ui

----------------------------------------------------------------------------
(* Database initialisation *)

\* Lines 73-91: a fresh database holds the three empty tables and one Admin.
InitialAdmin ==
    [id |-> 1, username |-> "admin", name |-> "Alice Durand", role |-> "Admin",
     status |-> "Active", password |-> Hash("password"), clientId |-> Null]

initializeDatabase ==
    /\ stockMovements = <<>>
    /\ clients = <<>>
    /\ users = {InitialAdmin}
    /\ userSeq = 1
    /\ resp = NoResponse
    /\ inflight = <<>>

\* index.tsx lines 50-60 and 2416-2424: the page as the browser opens it,
\* before initializeApp has fetched anything.  stored is what localStorage
\* holds under warehouseRememberMe.
DOMContentLoaded(stored) ==
    /\ cache = <<>>
    /\ uiUsers = {}
    /\ currentUser = Null
    /\ remembered = stored
    /\ isAppLoading = TRUE
    /\ pending = {}

Init == initializeDatabase /\ DOMContentLoaded(Null)

----------------------------------------------------------------------------
(* Request bodies the specifications send *)

MovementBody(c, t, p, tw, pc, pw, wc, ww, u, cm) ==
    [clientId |-> c, type |-> t, product |-> p, totalWeight |-> tw,
     plasticBoxCount |-> pc, plasticBoxWeight |-> pw,
     woodBoxCount |-> wc, woodBoxWeight |-> ww,
     recordedByUserId |-> u, comment |-> cm]

NoBox == <<Null, Null>>

Box(count, weight) == <<Some(count), Some(weight)>>

\* Deposits and withdrawals of client 1 over two product names that differ
\* in case only, with and without a plastic box.
PlainBodies ==
    { MovementBody(Some(1), Some(t), Some(p), Some(wb[1]), wb[2][1], wb[2][2],
                   Null, Null, Some(1), Null) :
        t \in {"in", "out"}, p \in {"A", "a"},
        wb \in {<<2, NoBox>>, <<2, Box(1, 1)>>} }

\* A second client.
OtherClientBodies ==
    { MovementBody(Some(2), Some(t), Some("A"), Some(1), Some(1), Some(0),
                   Null, Null, Some(1), Null) :
        t \in {"in", "out"} }

\* Wood boxes, including one heavier than the gross weight.
WoodBodies ==
    { MovementBody(Some(1), Some(t), Some("A"), Some(2), Null, Null, w[1], w[2],
                   Some(1), Null) :
        t \in {"in", "out"}, w \in {Box(1, 1), Box(1, 3)} }

\* Zero and negative box counts and unit weights.
SignedBodies ==
    { MovementBody(Some(1), Some(tb[1]), Some("A"), Some(1), tb[2][1], tb[2][2],
                   Null, Null, Some(1), Null) :
        tb \in { <<"in", Box(-1, 1)>>, <<"out", Box(-1, 1)>>, <<"in", Box(1, -1)>>,
                 <<"in", Box(0, 1)>>, <<"in", Box(2, 1)>>, <<"out", Box(2, 1)>> } }

\* A type that is neither 'in' nor 'out'.
OtherTypeBodies ==
    { MovementBody(Some(1), Some("transfer"), Some("A"), Some(1), Some(1), Some(0),
                   Null, Null, Some(1), Null) }

\* A complete deposit, and the same body with one required field absent,
\* null, 0 or "".
FullBody ==
    MovementBody(Some(1), Some("in"), Some("A"), Some(1), Null, Null, Null, Null,
                 Some(1), Null)

FalsyBodies ==
    { [FullBody EXCEPT ![f[1]] = f[2]] :
        f \in { <<"clientId", Null>>, <<"type", Some("")>>, <<"product", Null>>,
                <<"totalWeight", Null>>, <<"totalWeight", Some(0)>>,
                <<"recordedByUserId", Some(0)>> } }

\* Bodies without a required field that would also fail a later check: a
\* withdrawal whose wood box outweighs the gross weight, and a withdrawal of
\* boxes with a gross weight of zero.
FalsyOutBodies ==
    { MovementBody(Some(1), Some("out"), Some("A"), Some(2), Null, Null,
                   Some(1), Some(3), Null, Null),
      MovementBody(Some(1), Some("out"), Some("A"), Some(0), Some(1), Some(0),
                   Null, Null, Some(1), Null) }

LedgerBodies ==
    PlainBodies \cup OtherClientBodies \cup WoodBodies \cup SignedBodies
        \cup OtherTypeBodies \cup FalsyBodies

\* The bodies that exercise the checks of lines 286-311 one after the other:
\* the complete deposit, the plain deposits and withdrawals of two clients,
\* and every body that lacks a required field.
ValidationBodies ==
    {FullBody} \cup PlainBodies \cup OtherClientBodies \cup OtherTypeBodies
        \cup FalsyBodies \cup FalsyOutBodies

\* Every body a POST /api/movements is examined with.
MovementBodies == LedgerBodies \cup ValidationBodies

----------------------------------------------------------------------------
(* The ledger under one-at-a-time POST /api/movements requests *)

\* new Date().toISOString().split('T')[0] on the day the ledger is exercised.
LedgerDay == "2024-05-01"

NextLedger == \E req \in LedgerBodies : PostMovement(req, LedgerDay, MaxRows)

SpecLedger == Init /\ [][NextLedger]_vars

----------------------------------------------------------------------------
(* The validation of POST /api/movements *)

NextValidation ==
    \E req \in ValidationBodies : PostMovement(req, LedgerDay, MaxRows)

SpecValidation == Init /\ [][NextValidation]_vars

----------------------------------------------------------------------------
(* The ledger under requests whose boxes differ in unit weight *)

\* Deposits and withdrawals of client 1 and product "A" with no box, with a
\* weightless plastic box and with a plastic box of half a kilogram.
GrossBodies ==
    { MovementBody(Some(1), Some(t), Some("A"), Some(wb[1]), wb[2][1], wb[2][2],
                   Null, Null, Some(1), Null) :
        t \in {"in", "out"},
        wb \in { <<2, NoBox>>, <<2, Box(1, 0)>>, <<3, Box(1, 1)>> } }

NextGross == \E req \in GrossBodies : PostMovement(req, LedgerDay, MaxRows)

SpecGross == Init /\ [][NextGross]_vars

----------------------------------------------------------------------------
(* The whole API, one request at a time *)

ApiMovementBodies ==
    { MovementBody(Some(1), Some("in"), Some("A"), Some(1), Null, Null, Null, Null,
                   Some(2), Some(" note ")),
      MovementBody(Some(1), Some("out"), Some("A"), Some(1), Null, Null, Null, Null,
                   Some(1), Some(" ")) }

PatchBody(farmerComment, isCommentRead) ==
    [farmerComment |-> farmerComment, isCommentRead |-> isCommentRead]

\* The body the comment viewer sends: isCommentRead: true and nothing else.
MarkReadBody == PatchBody(<<>>, JBoolean(TRUE))

ApiPatchBodies ==
    { PatchBody(JString("late"), <<>>), PatchBody(<<>>, JBoolean(TRUE)),
      PatchBody(JString("late"), JBoolean(TRUE)), PatchBody(JNumber(5), <<>>) }

ClientBody(name, email) ==
    [name |-> name, type |-> Some("Particulier"), phone |-> Some("0600000000"),
     address |-> Some("Rue 1"), email |-> email, comment |-> Null]

ApiClientBodies == { ClientBody(Some("Ferme"), Some("f@x.ma")), ClientBody(Some("Ferme"), Null) }

UserBody(name, username, password, role, status, clientId) ==
    [name |-> name, username |-> username, password |-> password, role |-> role,
     status |-> status, clientId |-> clientId]

ApiPostUserBodies ==
    { UserBody(Some("Bob"), Some("bob"), Some("pw"), Some("Receptionniste"), Null, Null),
      UserBody(Some("Bob"), Some("bob"), Null, Some("Receptionniste"), Null, Null) }

\* The body the suspend toggle of the UI sends.
ApiPutUserBodies == { UserBody(Null, Null, Null, Null, Some("Suspended"), Null) }

ApiLoginBodies ==
    { [username |-> Some("Admin"), password |-> Some("password"), role |-> Some("Admin")],
      [username |-> Some("bob"), password |-> Some("wrong"), role |-> Some("Receptionniste")] }

ApiDay == "2024-05-02"

Next ==
    \/ \E req \in ApiMovementBodies : PostMovement(req, ApiDay, MaxApiRows)
    \/ \E id \in 1..(MaxApiRows + 1), body \in ApiPatchBodies : PatchMovement(id, body)
    \/ \E body \in ApiClientBodies : PostClient(body, ApiDay)
    \/ \E body \in ApiLoginBodies : Login(body)
    \/ \E body \in ApiPostUserBodies : PostUser(body)
    \/ \E id \in 1..(MaxUserId + 1), body \in ApiPutUserBodies : PutUser(id, body)
    \/ \E id \in 1..(MaxUserId + 1) : DeleteUser(id)

Spec == Init /\ [][Next]_vars

----------------------------------------------------------------------------
(* The movement routes on their own *)

\* POST /api/movements and PATCH /api/movements/:id are the only routes that
\* write the stock_movements table.
NextComments ==
    \/ \E req \in ApiMovementBodies : PostMovement(req, ApiDay, MaxApiRows)
    \/ \E id \in 1..(MaxApiRows + 1), body \in ApiPatchBodies : PatchMovement(id, body)

SpecComments == Init /\ [][NextComments]_vars

----------------------------------------------------------------------------
(* The user routes on their own *)

\* The user routes read and write the users table only, and no other route
\* reads or writes it.

\* A receptionist, the same body without its password, a farmer linked to
\* client 1 whose username differs from the receptionist's in case only, and
\* a second administrator whose body names a client.
PostUserBodies ==
    { UserBody(Some("Bob"), Some("bob"), Some("pw"), Some("Receptionniste"), Null, Null),
      UserBody(Some("Bob"), Some("bob"), Null, Some("Receptionniste"), Null, Null),
      UserBody(Some("Bob"), Some("Bob"), Some("pw"), Some("Agriculteur"), Null, Some(1)),
      UserBody(Some("Root"), Some("root"), Some("pw"), Some("Admin"), Null, Some(1)) }

\* The two bodies of the suspend / reactivate toggle, a rename that names a
\* client, a change of password, and the edit form's body for a farmer.
PutUserBodies ==
    { UserBody(Null, Null, Null, Null, Some("Suspended"), Null),
      UserBody(Null, Null, Null, Null, Some("Active"), Null),
      UserBody(Some("Robert"), Null, Null, Null, Null, Some(1)),
      UserBody(Null, Null, Some("new"), Null, Null, Null),
      UserBody(Some("Bob"), Some("Bob"), Null, Some("Agriculteur"), Null, Some(1)) }

LoginBody(username, password, role) ==
    [username |-> username, password |-> password, role |-> role]

LoginBodies ==
    { LoginBody(Some(u), Some(p), Some(r)) :
        u \in {"admin", "Admin", "bob", "Bob", "root", "nobody"},
        p \in {"password", "pw", "new"},
        r \in {"Admin", "Receptionniste", "Agriculteur"} }
    \cup { LoginBody(Null, Some("password"), Some("Admin")),
           LoginBody(Some("admin"), Some(""), Some("Admin")),
           LoginBody(Some("admin"), Some("password"), Null) }

\* The login bodies the specification sends; LoginBodies are those the
\* handler's answer is examined for.
SentLoginBodies ==
    { LoginBody(Some("Admin"), Some("password"), Some("Admin")),
      LoginBody(Some("admin"), Some("pw"), Some("Admin")),
      LoginBody(Some("bob"), Some("pw"), Some("Receptionniste")),
      LoginBody(Some("bob"), Some("pw"), Some("Agriculteur")),
      LoginBody(Some("root"), Some("pw"), Some("Admin")),
      LoginBody(Null, Some("password"), Some("Admin")) }

NextUsers ==
    \/ \E body \in SentLoginBodies : Login(body)
    \/ \E body \in PostUserBodies : PostUser(body)
    \/ \E id \in 1..(MaxUserId + 1), body \in PutUserBodies : PutUser(id, body)
    \/ \E id \in 1..(MaxUserId + 1) : DeleteUser(id)

SpecUsers == Init /\ [][NextUsers]_vars

----------------------------------------------------------------------------
(* Concurrent POST /api/movements requests *)

RaceBodies ==
    { MovementBody(Some(1), Some(tb[1]), Some("A"), Some(tb[2]), tb[3][1], tb[3][2],
                   Null, Null, Some(1), Null) :
        tb \in { <<"in", 2, NoBox>>, <<"out", 2, NoBox>>, <<"out", 1, NoBox>>,
                 <<"out", 2, Box(1, 1)>> } }

RaceDay == "2024-05-03"

NextRace ==
    \/ \E s \in 1..MaxInFlight, req \in RaceBodies : Receive(s, req, RaceDay)
    \/ \E s \in 1..MaxInFlight : ReadProductStock(s)
    \/ \E s \in 1..MaxInFlight : ReadClientStock(s)
    \/ \E s \in 1..MaxInFlight : RunInsert(s)

SpecRace == Init /\ [][NextRace]_vars

----------------------------------------------------------------------------
(* The balance calculators on their own *)

\* The SELECT of both calculators has no ORDER BY: the rows reach the fold in
\* an order SQLite chooses.  order is a permutation of the row positions.
Orders(n) == { f \in [1..n -> 1..n] : \A i, j \in 1..n : f[i] = f[j] => i = j }

InOrder(table, order) == [i \in 1..Len(table) |-> table[order[i]]]

Identity(n) == [i \in 1..n |-> i]

\* Lines 102-121, answering with the summary and changing nothing.
Summarise(clientId, order) ==
    /\ resp' = Response(200, "summary", "", "",
                  Some([clientId |-> clientId, product |-> "",
                        reordered |-> order # Identity(Len(stockMovements)),
                        value |-> getClientStockSummary(InOrder(stockMovements, order),
                                                        clientId)]))
    /\ UNCHANGED <<stockMovements, users, userSeq, clients, inflight>>
    /\ UNCHANGED ui

\* Lines 123-134, answering with the stock and changing nothing.
ProductStock(clientId, product, order) ==
    /\ resp' = Response(200, "stock", "", "",
                  Some([clientId |-> clientId, product |-> product,
                        reordered |-> order # Identity(Len(stockMovements)),
                        value |-> getProductStockForClient(InOrder(stockMovements, order),
                                                           clientId, product)]))
    /\ UNCHANGED <<stockMovements, users, userSeq, clients, inflight>>
    /\ UNCHANGED ui

FoldDay == "2024-05-04"

\* Deposits and withdrawals of two clients over two products.
FoldBodies ==
    { MovementBody(Some(c), Some(t), Some(pb[1]), Some(pb[2]), pb[3][1], pb[3][2],
                   pb[4][1], pb[4][2], Some(1), Null) :
        c \in {1, 2}, t \in {"in", "out"},
        pb \in { <<"A", 1, NoBox, NoBox>>, <<"a", 3, Box(1, 1), Box(2, 0)>> } }

\* The tables of at most MaxFoldRows rows the INSERT of lines 311-318 can
\* have written from those bodies.
FoldTables ==
    UNION { { [i \in 1..n |-> InsertParams(bodies[i], i, FoldDay)] :
                bodies \in [1..n -> FoldBodies] } : n \in 0..MaxFoldRows }

InitFold ==
    /\ stockMovements \in FoldTables
    /\ clients = <<>>
    /\ users = {InitialAdmin}
    /\ userSeq = 1
    /\ resp = NoResponse
    /\ inflight = <<>>
    /\ DOMContentLoaded(Null)

NextFold ==
    \/ \E c \in {1, 2}, order \in Orders(Len(stockMovements)) : Summarise(c, order)
    \/ \E c \in {1, 2}, p \in {"A", "a"}, order \in Orders(Len(stockMovements)) :
          ProductStock(c, p, order)

SpecFold == InitFold /\ [][NextFold]_vars

----------------------------------------------------------------------------
(* The browser: index.tsx, one action per event handler *)

\* A cached movement holds isCommentRead as the JSON the server sent: <<>>
\* for null, <<TRUE>> or <<FALSE>> for a boolean.

\* server.js lines 265-272: GET /api/movements maps isCommentRead through !!.
GetMovements(table) ==
    [i \in 1..Len(table) |->
        [table[i] EXCEPT !.isCommentRead = Some(NotNot(table[i].isCommentRead))]]

\* server.js lines 182-187: GET /api/users.
GetUsers(table) == { Public(u) : u \in table }

\* ui_multiplier counting a withdrawal as a deposit.
ui_multiplier_NoSign(movement) == 1

\* index.tsx line 164 and line 182: the multiplier of the browser's folds.
ui_multiplier(movement) == IF movement.type = "in" THEN 1 ELSE -1

\* index.tsx lines 162-175: the forEach over the cached array, which skips
\* the movements of other clients.
RECURSIVE ui_forEach(_, _, _)
ui_forEach(movements, clientId, summary) ==
    IF movements = <<>> THEN summary
    ELSE LET movement == Head(movements)
         IN  ui_forEach(Tail(movements), clientId,
                IF movement.clientId = clientId
                THEN [totalWeight   |-> summary.totalWeight
                                          + movement.totalWeight * ui_multiplier(movement),
                      productWeight |-> summary.productWeight
                                          + movement.productWeight * ui_multiplier(movement),
                      plasticBoxes  |-> IF TruthyNum(movement.plasticBoxCount)
                                        THEN summary.plasticBoxes
                                               + movement.plasticBoxCount[1]
                                                   * ui_multiplier(movement)
                                        ELSE summary.plasticBoxes,
                      woodBoxes     |-> IF TruthyNum(movement.woodBoxCount)
                                        THEN summary.woodBoxes
                                               + movement.woodBoxCount[1]
                                                   * ui_multiplier(movement)
                                        ELSE summary.woodBoxes]
                ELSE summary)

\* index.tsx lines 160-176, over the cached array movements.
ui_getClientStockSummary(movements, clientId) ==
    ui_forEach(movements, clientId,
               [totalWeight |-> 0, productWeight |-> 0,
                plasticBoxes |-> 0, woodBoxes |-> 0])

\* index.tsx lines 181-184: the reduce from 0.
RECURSIVE ui_reduce(_, _)
ui_reduce(movements, stock) ==
    IF movements = <<>> THEN stock
    ELSE ui_reduce(Tail(movements),
                   stock + Head(movements).productWeight * ui_multiplier(Head(movements)))

\* index.tsx lines 178-185, over the cached array movements.
ui_getProductStockForClient(movements, clientId, product) ==
    ui_reduce(SelectSeq(movements,
                        LAMBDA m : m.clientId = clientId /\ m.product = product), 0)

\* JSON of the row a 201 answer carries: isCommentRead is the stored NULL.
PostedMovement(body) == body

\* JSON of the row a PATCH answer carries: isCommentRead is a boolean.
PatchedMovement(body) == [body EXCEPT !.isCommentRead = Some(body.isCommentRead)]

\* String.prototype.toLowerCase on the usernames of the model.
toLowerCase(s) ==
    CASE s = "Admin" -> "admin"
      [] s = "Bob" -> "bob"
      [] OTHER -> s

\* index.tsx lines 2334-2395.  users.find returns the first match of an array
\* the server sent in id order.  The branch in which a fetch fails leaves a
\* page without any control and is not followed.
initializeApp ==
    /\ isAppLoading
    /\ inflight = <<>>
    /\ cache' = GetMovements(stockMovements)
    /\ uiUsers' = GetUsers(users)
    /\ LET found == IF remembered = Null THEN {}
                    ELSE { u \in GetUsers(users) :
                             /\ toLowerCase(u.username) = toLowerCase(remembered[1].username)
                             /\ u.role = remembered[1].role
                             /\ u.status = "Active" }
       IN  currentUser' = IF found = {} THEN Null
                          ELSE Some(CHOOSE u \in found : \A v \in found : u.id <= v.id)
    /\ isAppLoading' = FALSE
    /\ UNCHANGED <<stockMovements, users, userSeq, clients, resp, inflight,
                   remembered, pending>>

\* index.tsx lines 292-353.  The login page is rendered when nobody is
\* logged in.
handleLogin(loginData, rememberMe) ==
    /\ ~isAppLoading
    /\ currentUser = Null
    /\ inflight = <<>>
    /\ LET response == LoginResult(loginData, users)
       IN  /\ resp' = response
           /\ IF response.status = 200
              THEN /\ currentUser' = response.body
                   /\ remembered' =
                        IF rememberMe
                        THEN Some([username |-> response.body[1].username,
                                   role |-> response.body[1].role])
                        ELSE Null
              ELSE UNCHANGED <<currentUser, remembered>>
    /\ UNCHANGED <<stockMovements, users, userSeq, clients, inflight,
                   cache, uiUsers, isAppLoading, pending>>

\* index.tsx lines 356-362.
handleLogout ==
    /\ ~isAppLoading
    /\ currentUser # Null
    /\ currentUser' = Null
    /\ UNCHANGED <<stockMovements, users, userSeq, clients, resp, inflight,
                   cache, uiUsers, remembered, isAppLoading, pending>>

\* index.tsx lines 1699-1710: the body built from the form; absent box
\* fields are sent as 0.
movementData(form, user) ==
    MovementBody(form.clientId, form.type, form.product, form.totalWeight,
                 Some(OrZero(form.plasticBoxCount)), Some(OrZero(form.plasticBoxWeight)),
                 Some(OrZero(form.woodBoxCount)), Some(OrZero(form.woodBoxWeight)),
                 Some(user.id), form.comment)

\* index.tsx lines 1676-1737.  The form is offered to administrators and
\* receptionists (lines 1258-1262); the handler awaits the answer and
\* nothing else of this browser runs meanwhile.
handleMovementSave(form, today) ==
    /\ ~isAppLoading
    /\ currentUser # Null
    /\ currentUser[1].role \in {"Admin", "Receptionniste"}
    /\ inflight = <<>>
    /\ IF \/ ~TruthyNum(form.clientId) \/ ~TruthyStr(form.product)
          \/ ~TruthyStr(form.type) \/ form.totalWeight = Null
          \/ form.totalWeight[1] <= 0
       THEN UNCHANGED <<stockMovements, resp, cache>>
       ELSE LET result == PostMovementResult(movementData(form, currentUser[1]),
                                             stockMovements, today)
            IN  /\ result.resp.status = 201 => Len(stockMovements) < MaxUiRows
                /\ stockMovements' = result.table
                /\ resp' = result.resp
                /\ cache' = IF result.resp.status = 201
                            THEN Append(cache, PostedMovement(result.resp.body[1]))
                            ELSE cache
    /\ UNCHANGED <<users, userSeq, clients, inflight,
                   uiUsers, currentUser, remembered, isAppLoading, pending>>

\* stockMovements.findIndex(m => m.id === movementId), 0 for -1.
findIndex(movements, movementId) ==
    IF \E i \in 1..Len(movements) : movements[i].id = movementId
    THEN CHOOSE i \in 1..Len(movements) :
            /\ movements[i].id = movementId
            /\ \A j \in 1..(i - 1) : movements[j].id # movementId
    ELSE 0

\* index.tsx lines 2084-2124.  The farmer page lists the cached movements of
\* the farmer's client (lines 1427-1459).  The cached object is replaced by a
\* new one, so a mark-read request in flight for it no longer holds the
\* object the array holds.
handleFarmerCommentSave(movementId, comment) ==
    /\ ~isAppLoading
    /\ currentUser # Null
    /\ currentUser[1].role = "Agriculteur"
    /\ currentUser[1].clientId # Null
    /\ inflight = <<>>
    /\ findIndex(cache, movementId) # 0
    /\ cache[findIndex(cache, movementId)].clientId = currentUser[1].clientId[1]
    /\ LET result == PatchMovementResult(movementId,
                                         PatchBody(JString(trim(comment)), <<>>),
                                         stockMovements)
       IN  /\ stockMovements' = result.table
           /\ resp' = result.resp
           /\ IF result.resp.status = 200
              THEN /\ cache' = [cache EXCEPT ![findIndex(cache, movementId)] =
                                    PatchedMovement(result.resp.body[1])]
                   /\ pending' = { IF p.id = movementId
                                   THEN [p EXCEPT !.attached = FALSE] ELSE p :
                                     p \in pending }
              ELSE UNCHANGED <<cache, pending>>
    /\ UNCHANGED <<users, userSeq, clients, inflight,
                   uiUsers, currentUser, remembered, isAppLoading>>

\* index.tsx lines 2167-2182, the part that runs when the viewer is opened.
\* The button is offered to administrators and receptionists on rows with a
\* farmer comment (lines 1029-1040).
renderViewCommentModal(movementId) ==
    /\ ~isAppLoading
    /\ currentUser # Null
    /\ currentUser[1].role \in {"Admin", "Receptionniste"}
    /\ findIndex(cache, movementId) # 0
    /\ TruthyStr(cache[findIndex(cache, movementId)].farmerComment)
    /\ IF cache[findIndex(cache, movementId)].isCommentRead # Some(TRUE)
       THEN /\ cache' = [cache EXCEPT ![findIndex(cache, movementId)].isCommentRead =
                                          Some(TRUE)]
            /\ pending' = pending \cup {[id |-> movementId, attached |-> TRUE]}
       ELSE UNCHANGED <<cache, pending>>
    /\ UNCHANGED <<stockMovements, users, userSeq, clients, resp, inflight,
                   uiUsers, currentUser, remembered, isAppLoading>>

\* The request of renderViewCommentModal reaches the server, which answers
\* (server.js lines 330-362).  fetch resolves, and the code has no then.
MarkReadAnswered(p) ==
    /\ p \in pending
    /\ inflight = <<>>
    /\ LET result == PatchMovementResult(p.id, MarkReadBody, stockMovements)
       IN  /\ stockMovements' = result.table
           /\ resp' = result.resp
    /\ pending' = pending \ {p}
    /\ UNCHANGED <<users, userSeq, clients, inflight,
                   cache, uiUsers, currentUser, remembered, isAppLoading>>

\* The request reaches the server and a database call fails: the UPDATE
\* (server.js line 351, nothing written) or the SELECT after it (line 355,
\* the row written).  The answer is 500; fetch resolves.
MarkReadDatabaseError(p, written) ==
    /\ p \in pending
    /\ inflight = <<>>
    /\ stockMovements' =
         IF written THEN PatchMovementResult(p.id, MarkReadBody, stockMovements).table
         ELSE stockMovements
    /\ resp' = Response(500, "Database error", "", "", Null)
    /\ pending' = pending \ {p}
    /\ UNCHANGED <<users, userSeq, clients, inflight,
                   cache, uiUsers, currentUser, remembered, isAppLoading>>

\* The request does not reach the server: fetch rejects and the catch of
\* index.tsx lines 2177-2181 writes false into the object it captured.
MarkReadNetworkFailure(p) ==
    /\ p \in pending
    /\ pending' = pending \ {p}
    /\ cache' = IF p.attached
                THEN [cache EXCEPT ![findIndex(cache, p.id)].isCommentRead = Some(FALSE)]
                ELSE cache
    /\ UNCHANGED <<stockMovements, users, userSeq, clients, resp, inflight,
                   uiUsers, currentUser, remembered, isAppLoading>>

\* unreadCount over the movements of every recorder.
unreadCount_AnyRecorder(movements, user) ==
    Len(SelectSeq(movements, LAMBDA m : /\ TruthyStr(m.farmerComment)
                                         /\ m.isCommentRead # Some(TRUE)))

\* index.tsx line 485.
unreadCount(movements, user) ==
    Len(SelectSeq(movements, LAMBDA m : /\ m.recordedByUserId = user.id
                                         /\ TruthyStr(m.farmerComment)
                                         /\ m.isCommentRead # Some(TRUE)))

\* index.tsx lines 484-490: the text of the badge renderSidebar puts on the
\* movements and dashboard links, Null when it appends none.
notificationBadge(movements, user) ==
    IF user # Null /\ user[1].role = "Receptionniste"
       /\ unreadCount(movements, user[1]) > 0
    THEN Some(NumStr(unreadCount(movements, user[1])))
    ELSE Null

----------------------------------------------------------------------------
(* One browser against a database with a receptionist, a farmer and a client *)

UiDay == "2024-05-05"

Receptionist ==
    [id |-> 2, username |-> "bob", name |-> "Bob", role |-> "Receptionniste",
     status |-> "Active", password |-> Hash("pw"), clientId |-> Null]

Farmer ==
    [id |-> 3, username |-> "Bob", name |-> "Bob", role |-> "Agriculteur",
     status |-> "Active", password |-> Hash("pw"), clientId |-> Some(1)]

SeededClient ==
    [id |-> 1, name |-> "Ferme", type |-> "Particulier", phone |-> "0600000000",
     address |-> "Rue 1", email |-> "f@x.ma", comment |-> Null, joinDate |-> UiDay]

Form(type, totalWeight, comment) ==
    [clientId |-> Some(1), type |-> Some(type), product |-> Some("A"),
     totalWeight |-> totalWeight, plasticBoxCount |-> Null, plasticBoxWeight |-> Null,
     woodBoxCount |-> Null, woodBoxWeight |-> Null, comment |-> comment]

\* A deposit, and a form the browser refuses for its weight.
UiForms == { Form("in", Some(2), Null), Form("in", Some(0), Null) }

UiComments == {"late", " "}

\* Login forms: the data and whether "remember me" is ticked.
UiLoginData ==
    { <<LoginBody(Some("admin"), Some("password"), Some("Admin")), FALSE>>,
      <<LoginBody(Some("bob"), Some("pw"), Some("Receptionniste")), TRUE>>,
      <<LoginBody(Some("bob"), Some("pw"), Some("Agriculteur")), FALSE>>,
      <<LoginBody(Some("bob"), Some("password"), Some("Receptionniste")), FALSE>> }

\* The ledger holds one deposit recorded by the receptionist, on which the
\* farmer has reported an anomaly from another browser.
SeededLedger ==
    PatchMovementResult(1, PatchBody(JString("late"), <<>>),
        PostMovementResult(movementData(Form("in", Some(2), Null), Receptionist),
                           <<>>, UiDay).table).table

\* What an earlier session of this browser can have left in localStorage.
StoredLogins == { Null, Some([username |-> "bob", role |-> "Receptionniste"]) }

InitUI ==
    /\ stockMovements = SeededLedger
    /\ clients = <<SeededClient>>
    /\ users = {InitialAdmin, Receptionist, Farmer}
    /\ userSeq = 3
    /\ resp = NoResponse
    /\ inflight = <<>>
    /\ \E stored \in StoredLogins : DOMContentLoaded(stored)

NextUI ==
    \/ initializeApp
    \/ \E login \in UiLoginData : handleLogin(login[1], login[2])
    \/ handleLogout
    \/ \E form \in UiForms : handleMovementSave(form, UiDay)
    \/ \E id \in 1..MaxUiRows, comment \in UiComments : handleFarmerCommentSave(id, comment)
    \/ \E id \in 1..MaxUiRows : renderViewCommentModal(id)
    \/ \E p \in pending : MarkReadAnswered(p)
    \/ \E p \in pending, written \in BOOLEAN : MarkReadDatabaseError(p, written)
    \/ \E p \in pending : MarkReadNetworkFailure(p)

SpecUI == InitUI /\ [][NextUI]_vars

----------------------------------------------------------------------------
(* The same browser when every request it sends succeeds *)

NextSession ==
    \/ initializeApp
    \/ \E login \in UiLoginData : handleLogin(login[1], login[2])
    \/ handleLogout
    \/ \E form \in UiForms : handleMovementSave(form, UiDay)
    \/ \E id \in 1..MaxUiRows, comment \in UiComments : handleFarmerCommentSave(id, comment)
    \/ \E id \in 1..MaxUiRows : renderViewCommentModal(id)
    \/ \E p \in pending : MarkReadAnswered(p)

SpecSession == InitUI /\ [][NextSession]_vars

----------------------------------------------------------------------------
(* The stock a browser shows and the stock the server computes *)

\* The page loads a table of FoldTables, and the server computes summaries
\* and product stocks over it with the rows in the order of their ids.
NextStock ==
    \/ initializeApp
    \/ \E c \in {1, 2} : Summarise(c, Identity(Len(stockMovements)))
    \/ \E c \in {1, 2}, p \in {"A", "a"} :
          ProductStock(c, p, Identity(Len(stockMovements)))

SpecStock == InitFold /\ [][NextStock]_vars

----------------------------------------------------------------------------
(* Balances as the specification words them *)

RECURSIVE SumOver(_, _)
SumOver(f, S) ==
    IF S = {} THEN 0
    ELSE LET x == CHOOSE x \in S : TRUE
         IN  f[x] + SumOver(f, S \ {x})

SumFn(f) == SumOver(f, DOMAIN f)

RowsOf(table, clientId, type) ==
    { i \in 1..Len(table) : table[i].clientId = clientId /\ table[i].type = type }

\* Sum of productWeight of the client's 'in' rows for exactly that product
\* minus the sum of its 'out' rows.
ProductBalance(table, clientId, product) ==
    SumFn([i \in { j \in RowsOf(table, clientId, "in") : table[j].product = product }
              |-> table[i].productWeight])
  - SumFn([i \in { j \in RowsOf(table, clientId, "out") : table[j].product = product }
              |-> table[i].productWeight])

CountOrZero(count) == IF count = Null THEN 0 ELSE count[1]

PlasticBalance(table, clientId) ==
    SumFn([i \in RowsOf(table, clientId, "in") |-> CountOrZero(table[i].plasticBoxCount)])
  - SumFn([i \in RowsOf(table, clientId, "out") |-> CountOrZero(table[i].plasticBoxCount)])

WoodBalance(table, clientId) ==
    SumFn([i \in RowsOf(table, clientId, "in") |-> CountOrZero(table[i].woodBoxCount)])
  - SumFn([i \in RowsOf(table, clientId, "out") |-> CountOrZero(table[i].woodBoxCount)])

ClientIds == {1, 2}

ProductNames == {"A", "a"}

OnlyInOut(table) == \A i \in 1..Len(table) : table[i].type \in {"in", "out"}

----------------------------------------------------------------------------
(* C1 *)

\* C1: under one-at-a-time requests whose types are all 'in' or 'out', the
\* product-scoped balance of every client and product is never negative.
C1_ProductBalanceNonNegative ==
    OnlyInOut(stockMovements) =>
        \A c \in ClientIds, p \in ProductNames :
            ProductBalance(stockMovements, c, p) >= 0

\* A withdrawal was accepted, and a later one was refused for lack of stock.
C1_Witness ==
    /\ OnlyInOut(stockMovements)
    /\ \E i \in 1..Len(stockMovements) : stockMovements[i].type = "out"
    /\ resp.message = "Stock de produit net insuffisant."

----------------------------------------------------------------------------
(* C2 *)

\* C2: under one-at-a-time requests the plastic and wood box balances of
\* every client (its 'in' rows minus its 'out' rows, over all its products)
\* are never negative, and an 'out' request for more plastic or wood boxes
\* than that balance is answered 400 and stores nothing.
C2_BoxBalancesNonNegative ==
    /\ \A c \in ClientIds :
          PlasticBalance(stockMovements, c) >= 0 /\ WoodBalance(stockMovements, c) >= 0
    /\ \A req \in LedgerBodies :
          ( /\ TruthyNum(req.clientId)
            /\ req.type = Some("out")
            /\ \/ CountOrZero(req.plasticBoxCount)
                      > PlasticBalance(stockMovements, req.clientId[1])
               \/ CountOrZero(req.woodBoxCount)
                      > WoodBalance(stockMovements, req.clientId[1]) )
          => LET result == PostMovementResult(req, stockMovements, LedgerDay)
             IN  result.resp.status = 400 /\ result.table = stockMovements

\* A box deposited under one product was withdrawn under the other, and a
\* further box withdrawal was refused.
C2_Witness ==
    /\ \E i, j \in 1..Len(stockMovements) :
          /\ stockMovements[i].type = "in" /\ stockMovements[j].type = "out"
          /\ stockMovements[i].clientId = stockMovements[j].clientId
          /\ stockMovements[i].product # stockMovements[j].product
          /\ stockMovements[i].plasticBoxCount # Null
          /\ stockMovements[j].plasticBoxCount # Null
          /\ PlasticBalance(stockMovements, stockMovements[i].clientId) = 0
    /\ resp.message = "Stock de box en plastique insuffisant."

----------------------------------------------------------------------------
(* C4 *)

\* The net weight recomputed from a stored row's own fields, a box count or
\* unit weight stored as NULL counting as 0.
StoredNet(row) ==
    row.totalWeight
      - CountOrZero(row.plasticBoxCount) * CountOrZero(row.plasticBoxWeight)
      - CountOrZero(row.woodBoxCount) * CountOrZero(row.woodBoxWeight)

\* C4: every stored row has productWeight = totalWeight
\* - plasticBoxCount*plasticBoxWeight - woodBoxCount*woodBoxWeight over its
\* own stored fields, whatever box counts and unit weights the request had.
C4_StoredNetWeightConsistent ==
    \A i \in 1..Len(stockMovements) :
        stockMovements[i].productWeight = StoredNet(stockMovements[i])

----------------------------------------------------------------------------
(* C5 *)

\* totalWeight - sum(boxCount * boxUnitWeight) of a request body, an absent
\* value counting as 0.
DerivedNet(req) ==
    CountOrZero(req.totalWeight)
      - CountOrZero(req.plasticBoxCount) * CountOrZero(req.plasticBoxWeight)
      - CountOrZero(req.woodBoxCount) * CountOrZero(req.woodBoxWeight)

\* C5: a request of either type whose derived net weight is negative is
\* answered 400 and stores nothing, and every stored row has
\* productWeight >= 0.
C5_NegativeNetWeightRejected ==
    /\ \A i \in 1..Len(stockMovements) : stockMovements[i].productWeight >= 0
    /\ \A req \in LedgerBodies :
          DerivedNet(req) < 0
          => LET result == PostMovementResult(req, stockMovements, LedgerDay)
             IN  result.resp.status = 400 /\ result.table = stockMovements

\* The negative-net-weight refusal was given while the ledger holds rows.
C5_Witness ==
    /\ resp.status = 400
    /\ resp.message = "Le poids net du produit est negatif."
    /\ Len(stockMovements) > 0

----------------------------------------------------------------------------
(* C6 *)

\* The same amount written with two decimals, for the amounts of the model.
TwoDecimals(w) ==
    CASE w = -4 -> "-2.00" [] w = -3 -> "-1.50" [] w = -2 -> "-1.00"
      [] w = -1 -> "-0.50" [] w = 0 -> "0.00" [] w = 1 -> "0.50"
      [] w = 2 -> "1.00" [] w = 3 -> "1.50" [] w = 4 -> "2.00"
      [] w = 5 -> "2.50" [] w = 6 -> "3.00" [] w = 7 -> "3.50"
      [] w = 8 -> "4.00" [] w = 9 -> "4.50" [] w = 10 -> "5.00"
      [] OTHER -> "out of range"

\* What C6 says of the result of one 'out' request that has all required
\* fields and a non-negative net weight.
C6_Boundary(req, table, result) ==
    LET c == req.clientId[1]
        A == getProductStockForClient(table, c, req.product[1])
        boxes == getClientStockSummary(table, c)
        boxesPass == /\ pBoxCount(req) <= boxes.plasticBoxes
                     /\ wBoxCount(req) <= boxes.woodBoxes
    IN  IF DerivedNet(req) > A
        THEN /\ result.resp.status = 400
             /\ result.table = table
             /\ result.resp.available = TwoDecimals(A)
             /\ result.resp.requested = TwoDecimals(DerivedNet(req))
        ELSE IF boxesPass
        THEN /\ result.resp.status = 201
             /\ Len(result.table) = Len(table) + 1
             /\ DerivedNet(req) = A =>
                    getProductStockForClient(result.table, c, req.product[1]) = 0
        ELSE result.resp.status = 400 /\ result.table = table

\* C6: for an 'out' request, a net weight equal to the available product
\* stock A is accepted and leaves the balance at 0; a larger one is answered
\* 400 with A and the requested amount in two decimals; a box count equal to
\* the available box balance is accepted and only a larger one is refused.
C6_EqualityAllowedAtBoundary ==
    \A req \in LedgerBodies :
        ( /\ req.type = Some("out")
          /\ ~MissingRequired(req)
          /\ DerivedNet(req) >= 0 )
        => C6_Boundary(req, stockMovements,
                       PostMovementResult(req, stockMovements, LedgerDay))

\* A withdrawal took the whole product stock and the whole box stock, and
\* the next withdrawal, of half a kilogram, was refused.
C6_Witness ==
    /\ Len(stockMovements) >= 2
    /\ LET last == stockMovements[Len(stockMovements)]
       IN  /\ last.type = "out"
           /\ last.productWeight > 0
           /\ last.plasticBoxCount # Null
           /\ getProductStockForClient(stockMovements, last.clientId, last.product) = 0
           /\ getClientStockSummary(stockMovements, last.clientId).plasticBoxes = 0
    /\ resp.status = 400
    /\ resp.message = "Stock de produit net insuffisant."
    /\ resp.available = "0.00"
    /\ resp.requested = "0.50"

----------------------------------------------------------------------------
(* C7 *)

\* C7: an 'in' request with all required fields and a non-negative net
\* weight is accepted and appended whatever the balances are; an 'in'
\* request is refused only for a missing field or a negative net weight.
C7_DepositsUnchecked ==
    \A req \in LedgerBodies :
        req.type = Some("in") =>
            LET result == PostMovementResult(req, stockMovements, LedgerDay)
                n == Len(stockMovements)
            IN  IF ~MissingRequired(req) /\ DerivedNet(req) >= 0
                THEN /\ result.resp.status = 201
                     /\ Len(result.table) = n + 1
                     /\ SubSeq(result.table, 1, n) = stockMovements
                     /\ result.resp.body = Some(result.table[n + 1])
                     /\ result.table[n + 1].type = "in"
                     /\ result.table[n + 1].clientId = req.clientId[1]
                     /\ result.table[n + 1].product = req.product[1]
                     /\ result.table[n + 1].productWeight = DerivedNet(req)
                ELSE /\ result.resp.status = 400
                     /\ result.table = stockMovements
                     /\ result.resp.message \in
                            {"Missing required fields for movement.",
                             "Le poids net du produit est negatif."}

\* A deposit was accepted on top of an existing positive balance.
C7_Witness ==
    /\ resp.status = 201
    /\ resp.body[1].type = "in"
    /\ Len(stockMovements) >= 2
    /\ getProductStockForClient(stockMovements, resp.body[1].clientId,
                                resp.body[1].product) > resp.body[1].productWeight

----------------------------------------------------------------------------
(* C9 *)

\* The columns of a movement that no route may change.
Immutable(row) ==
    [id |-> row.id, clientId |-> row.clientId, type |-> row.type,
     product |-> row.product, totalWeight |-> row.totalWeight,
     plasticBoxCount |-> row.plasticBoxCount, plasticBoxWeight |-> row.plasticBoxWeight,
     woodBoxCount |-> row.woodBoxCount, woodBoxWeight |-> row.woodBoxWeight,
     productWeight |-> row.productWeight, date |-> row.date,
     recordedByUserId |-> row.recordedByUserId, comment |-> row.comment]

\* C9: over any sequence of API requests no movement row is removed, the
\* fields of an existing row other than farmerComment and isCommentRead
\* never change, and those two change only by a PATCH on that row's id.
C9_LedgerAppendOnly ==
    [][/\ Len(stockMovements') >= Len(stockMovements)
       /\ \A i \in 1..Len(stockMovements) :
             Immutable(stockMovements'[i]) = Immutable(stockMovements[i])
       /\ LET changed == { i \in 1..Len(stockMovements) :
                               stockMovements'[i] # stockMovements[i] }
          IN  changed # {} =>
                \E id \in 1..(MaxApiRows + 1), body \in ApiPatchBodies :
                    /\ PatchMovement(id, body)
                    /\ \A i \in changed : stockMovements[i].id = id]_vars

\* Two rows are stored, the first one carries a farmer comment that was
\* read, a client and a second user exist, and a user was just deleted or
\* updated.
C9_Witness ==
    /\ Len(stockMovements) = 2
    /\ stockMovements[1].farmerComment = Some("late")
    /\ stockMovements[1].isCommentRead = Some(1)
    /\ stockMovements[1].comment = Some("note")
    /\ stockMovements[2].farmerComment = Null
    /\ Len(clients) = 1
    /\ userSeq = 2
    /\ resp.status \in {200, 204}
    /\ resp.body = Null \/ resp.body[1].id = 2

----------------------------------------------------------------------------
(* C10 *)

\* C10: every successful PATCH whose body has a string farmerComment leaves
\* the row with isCommentRead false, whatever it was before and whatever
\* else the body carries.
C10_CommentWriteResetsRead ==
    [][\A id \in 1..(MaxApiRows + 1), body \in ApiPatchBodies :
          ( /\ typeof(body.farmerComment) = "string"
            /\ PatchMovement(id, body)
            /\ resp'.status = 200 )
          => /\ ~NotNot(stockMovements'[id].isCommentRead)
             /\ resp'.body[1].isCommentRead = FALSE]_vars

----------------------------------------------------------------------------
(* C3 *)

\* C3: validation and insertion are separate steps with nothing held between
\* them: a request that passed validation is inserted whatever the table
\* holds by then, its productWeight having been compared only with the stock
\* it read, so two concurrent withdrawals can overdraw the product balance.
C3_ValidateThenInsertRace ==
    /\ [](\A s \in DOMAIN inflight :
            inflight[s].availableProductStock # Null =>
                productWeight(inflight[s].req) <= inflight[s].availableProductStock[1])
    /\ [][\A s \in DOMAIN inflight :
            (inflight[s].pc = "insert" /\ s \notin DOMAIN inflight')
            => /\ resp'.status = 201
               /\ stockMovements' =
                    Append(stockMovements,
                           InsertParams(inflight[s].req, Len(stockMovements) + 1,
                                        inflight[s].date))]_vars

\* One deposit of 1 kg and two withdrawals of 1 kg each are stored: the
\* product balance of client 1 is -1 kg.
C3_Witness ==
    /\ OnlyInOut(stockMovements)
    /\ inflight = <<>>
    /\ Len(stockMovements) = 3
    /\ stockMovements[1].type = "in" /\ stockMovements[1].productWeight = 2
    /\ stockMovements[2].type = "out" /\ stockMovements[2].productWeight = 2
    /\ stockMovements[3].type = "out" /\ stockMovements[3].productWeight = 2
    /\ ProductBalance(stockMovements, 1, "A") = -2
    /\ resp.status = 201

----------------------------------------------------------------------------
(* C8 *)

GrossBalance(table, clientId) ==
    SumFn([i \in RowsOf(table, clientId, "in") |-> table[i].totalWeight])
  - SumFn([i \in RowsOf(table, clientId, "out") |-> table[i].totalWeight])

NetBalance(table, clientId) ==
    SumFn([i \in RowsOf(table, clientId, "in") |-> table[i].productWeight])
  - SumFn([i \in RowsOf(table, clientId, "out") |-> table[i].productWeight])

\* C8: for a fixed table of 'in' and 'out' rows, whatever order the rows are
\* folded in, the client summary and the product stock equal the signed sums
\* (+ for 'in', - for 'out'), and computing them changes no table.
C8_BalancesArePureSignedSums ==
    /\ [](resp.message = "summary" =>
            resp.body[1].value =
                [totalWeight   |-> GrossBalance(stockMovements, resp.body[1].clientId),
                 productWeight |-> NetBalance(stockMovements, resp.body[1].clientId),
                 plasticBoxes  |-> PlasticBalance(stockMovements, resp.body[1].clientId),
                 woodBoxes     |-> WoodBalance(stockMovements, resp.body[1].clientId)])
    /\ [](resp.message = "stock" =>
            resp.body[1].value =
                ProductBalance(stockMovements, resp.body[1].clientId, resp.body[1].product))
    /\ [][UNCHANGED <<stockMovements, users, userSeq, clients>>]_vars

\* A summary was computed over three rows of one client, deposits and a
\* withdrawal with boxes, folded in another order than the table's.
C8_Witness ==
    /\ resp.message = "summary"
    /\ resp.body[1].reordered
    /\ Len(stockMovements) = 3
    /\ \A i \in 1..3 : stockMovements[i].clientId = resp.body[1].clientId
    /\ stockMovements[1].type = "in" /\ stockMovements[2].type = "out"
    /\ stockMovements[1].product # stockMovements[3].product
    /\ resp.body[1].value.plasticBoxes > 0
    /\ resp.body[1].value.productWeight > 0

----------------------------------------------------------------------------
(* C11 *)

\* C11: on every stored row, a PATCH whose body holds only isCommentRead:
\* true is answered 200, sets isCommentRead on that row, leaves its
\* farmerComment, its other fields and every other row as they were, and a
\* second identical PATCH leaves the ledger and the answer as the first did.
C11_MarkReadIdempotent ==
    \A id \in 1..(MaxApiRows + 1) :
        HasMovement(stockMovements, id) =>
            LET once == PatchMovementResult(id, MarkReadBody, stockMovements)
                twice == PatchMovementResult(id, MarkReadBody, once.table)
            IN  /\ once.resp.status = 200
                /\ once.resp.body[1].isCommentRead = TRUE
                /\ Len(once.table) = Len(stockMovements)
                /\ \A i \in 1..Len(stockMovements) :
                      once.table[i] =
                          IF stockMovements[i].id = id
                          THEN [stockMovements[i] EXCEPT !.isCommentRead = Some(1)]
                          ELSE stockMovements[i]
                /\ twice.table = once.table
                /\ twice.resp = once.resp

\* Row 1, which never had a farmer comment, was just marked read, while
\* row 2 carries a farmer comment that is still unread.
C11_Witness ==
    /\ Len(stockMovements) = 2
    /\ stockMovements[1].farmerComment = Null
    /\ stockMovements[1].isCommentRead = Some(1)
    /\ stockMovements[2].farmerComment = Some("late")
    /\ stockMovements[2].isCommentRead = Some(0)
    /\ resp.status = 200
    /\ resp.body # Null
    /\ resp.body[1].id = 1

----------------------------------------------------------------------------
(* C12 *)

\* C12: in every reachable users table, DELETE on the id of an Admin is
\* answered 403 and removes nothing, DELETE on the id of another existing
\* user is answered 204 and removes that user and no other, and DELETE on an
\* id no user has is answered 404 and removes nothing.  The handler has no
\* notion of a caller.
C12_DeleteUserOutcomes ==
    \A id \in 1..(MaxUserId + 1) :
        LET result == DeleteUserResult(id, users)
            target == { u \in users : u.id = id }
        IN  IF target = {}
            THEN result.resp.status = 404 /\ result.users = users
            ELSE IF \E u \in target : u.role = "Admin"
            THEN result.resp.status = 403 /\ result.users = users
            ELSE /\ result.resp.status = 204
                 /\ result.users = users \ target
                 /\ Cardinality(result.users) = Cardinality(users) - 1

\* With two administrators stored, one of them suspended, the deletion of an
\* administrator was refused.
C12_Witness ==
    /\ resp.status = 403
    /\ resp.message = "Cannot delete an admin user."
    /\ Cardinality({ u \in users : u.role = "Admin" }) = 2
    /\ \E u \in users : u.role = "Admin" /\ u.status = "Suspended"

----------------------------------------------------------------------------
(* C13 *)

UserFields == {"name", "username", "role", "status", "clientId", "password"}

\* C13: a successful PUT /api/users/:id leaves every field of the user that
\* is absent from the body at its previous value; in particular the
\* status-only body of the suspend / reactivate toggle changes neither the
\* role nor the clientId link.
C13_PutUserIsPartialUpdate ==
    \A id \in 1..(MaxUserId + 1), body \in PutUserBodies :
        LET result == PutUserResult(id, body, users)
        IN  (HasUser(users, id) /\ result.resp.status = 200) =>
                \A f \in UserFields :
                    body[f] = Null =>
                        UserById(result.users, id)[f] = UserById(users, id)[f]

----------------------------------------------------------------------------
(* C14 *)

Ids(table) == { table[i].id : i \in 1..Len(table) }

----------------------------------------------------------------------------
(* C17 *)

\* Usernames that are equal when letter case is ignored.
SameNameIgnoringCase(a, b) ==
    \/ a = b
    \/ {a, b} = {"admin", "Admin"}
    \/ {a, b} = {"bob", "Bob"}

\* A field of a login body that is absent, null or the empty string.
Blank(v) == v = Null \/ v = Some("")

\* The users a login body names: username up to letter case, exactly that
\* role, and that password.
Credentialed(body, table) ==
    { u \in table : /\ SameNameIgnoringCase(u.username, body.username[1])
                    /\ u.role = body.role[1]
                    /\ u.password = Hash(body.password[1]) }

\* What C17 says of the answer to one login body.
C17_Answer(body, table, answer) ==
    IF Blank(body.username) \/ Blank(body.password) \/ Blank(body.role)
    THEN answer.status = 400 /\ answer.body = Null
    ELSE IF Credentialed(body, table) = {}
    THEN answer.status = 401 /\ answer.body = Null
    ELSE IF \A u \in Credentialed(body, table) : u.status = "Suspended"
    THEN answer.status = 403 /\ answer.body = Null
    ELSE /\ answer.status = 200
         /\ "password" \notin DOMAIN answer.body[1]
         /\ \E u \in Credentialed(body, table) :
               /\ u.status # "Suspended"
               /\ \A f \in DOMAIN answer.body[1] : answer.body[1][f] = u[f]
               /\ DOMAIN answer.body[1] = DOMAIN u \ {"password"}

----------------------------------------------------------------------------
(* C18 *)

\* The message of the earliest check a request fails, in the order required
\* fields, negative net weight, then for 'out' only product stock, plastic
\* boxes, wood boxes; "" when it fails none.
C18_EarliestFailure(req, table) ==
    IF \E f \in {"clientId", "totalWeight", "recordedByUserId"} :
            req[f] = Null \/ req[f] = Some(0)
    THEN "Missing required fields for movement."
    ELSE IF \E f \in {"type", "product"} : req[f] = Null \/ req[f] = Some("")
    THEN "Missing required fields for movement."
    ELSE IF DerivedNet(req) < 0
    THEN "Le poids net du produit est negatif."
    ELSE IF req.type # Some("out")
    THEN ""
    ELSE IF DerivedNet(req)
              > getProductStockForClient(table, req.clientId[1], req.product[1])
    THEN "Stock de produit net insuffisant."
    ELSE IF CountOrZero(req.plasticBoxCount)
              > getClientStockSummary(table, req.clientId[1]).plasticBoxes
    THEN "Stock de box en plastique insuffisant."
    ELSE IF CountOrZero(req.woodBoxCount)
              > getClientStockSummary(table, req.clientId[1]).woodBoxes
    THEN "Stock de box en bois insuffisant."
    ELSE ""

\* The number of checks a request fails when each is looked at on its own.
C18_FailedChecks(req, table) ==
    LET complete == /\ req.clientId # Null /\ req.product # Null
        out == req.type = Some("out")
    IN  Cardinality(
          { k \in 1..5 :
              \/ k = 1 /\ MissingRequired(req)
              \/ k = 2 /\ DerivedNet(req) < 0
              \/ k = 3 /\ out /\ complete
                       /\ DerivedNet(req)
                            > getProductStockForClient(table, req.clientId[1],
                                                       req.product[1])
              \/ k = 4 /\ out /\ complete
                       /\ CountOrZero(req.plasticBoxCount)
                            > getClientStockSummary(table, req.clientId[1]).plasticBoxes
              \/ k = 5 /\ out /\ complete
                       /\ CountOrZero(req.woodBoxCount)
                            > getClientStockSummary(table, req.clientId[1]).woodBoxes })

\* C18: the answer to a POST /api/movements carries the message of the
\* earliest failing check in the order required fields, negative net weight,
\* product stock, plastic boxes, wood boxes (the last three for 'out' only),
\* also when the request fails several checks; it is 201 exactly when no
\* check fails.
C18_ChecksRunInOrder ==
    \A req \in MovementBodies :
        LET result == PostMovementResult(req, stockMovements, LedgerDay)
            first == C18_EarliestFailure(req, stockMovements)
        IN  /\ result.resp.message = first
            /\ result.resp.status = IF first = "" THEN 201 ELSE 400

\* With rows stored and no box in stock for any client, a withdrawal of half
\* a kilogram net, which the model only sends with one box, was refused for
\* lack of product: it failed the product check and a box check.
C18_Witness ==
    /\ Len(stockMovements) >= 1
    /\ resp.status = 400
    /\ resp.message = "Stock de produit net insuffisant."
    /\ resp.available = "0.00"
    /\ resp.requested = "0.50"
    /\ \A c \in ClientIds :
          /\ getClientStockSummary(stockMovements, c).plasticBoxes = 0
          /\ getClientStockSummary(stockMovements, c).woodBoxes = 0
    /\ \E req \in MovementBodies :
          /\ C18_FailedChecks(req, stockMovements) >= 2
          /\ PostMovementResult(req, stockMovements, LedgerDay).resp = resp

----------------------------------------------------------------------------
(* C19 *)

\* The stock of one bucket: over the rows of that client whose product is
\* that string, the productWeight of the 'in' rows minus that of the others.
BucketBalance(table, clientId, product) ==
    LET bucket == { i \in 1..Len(table) : /\ table[i].clientId = clientId
                                          /\ table[i].product = product }
    IN  SumOver([i \in bucket |-> IF table[i].type = "in"
                                  THEN table[i].productWeight
                                  ELSE 0 - table[i].productWeight], bucket)

\* C19: an 'out' request for product P of client C that has its required
\* fields and a non-negative net weight is refused for lack of product
\* exactly when its net weight exceeds the stock of the bucket (C, P), so
\* stock of another client or under a name of another case or spelling is
\* never available to it; an accepted movement for (C, P) changes the stock
\* of (C, P) by its net weight and the stock of no other bucket.
C19_StockBucketedByClientAndProduct ==
    \A req \in MovementBodies :
        (~MissingRequired(req) /\ DerivedNet(req) >= 0) =>
            LET result == PostMovementResult(req, stockMovements, LedgerDay)
                C == req.clientId[1]
                P == req.product[1]
            IN  /\ req.type = Some("out") =>
                      ( result.resp.message = "Stock de produit net insuffisant."
                        <=> DerivedNet(req) > BucketBalance(stockMovements, C, P) )
                /\ result.resp.status = 201 =>
                      \A c \in ClientIds, p \in ProductNames :
                          BucketBalance(result.table, c, p) =
                              BucketBalance(stockMovements, c, p)
                                + (IF c = C /\ p = P
                                   THEN (IF req.type = Some("in") THEN DerivedNet(req)
                                         ELSE 0 - DerivedNet(req))
                                   ELSE 0)

\* Clients 1 and 2 both hold stock of "A", client 1 holds none of "a", and a
\* withdrawal was refused with 0.00 kg available: the withdrawal of "a" by
\* client 1.
C19_Witness ==
    /\ BucketBalance(stockMovements, 1, "A") > 0
    /\ BucketBalance(stockMovements, 2, "A") > 0
    /\ BucketBalance(stockMovements, 1, "a") = 0
    /\ resp.status = 400
    /\ resp.message = "Stock de produit net insuffisant."
    /\ resp.available = "0.00"

----------------------------------------------------------------------------
(* C20 *)

\* The request lacks a required field: a number that is absent, null or 0,
\* or a string that is absent, null or empty.
C20_LacksRequired(req) ==
    \/ \E f \in {"clientId", "totalWeight", "recordedByUserId"} :
          req[f] = Null \/ req[f] = Some(0)
    \/ \E f \in {"type", "product"} : req[f] = Null \/ req[f] = Some("")

\* C20: a POST /api/movements in which clientId, type, product, totalWeight
\* or recordedByUserId is missing or falsy is answered 400 'Missing required
\* fields' and inserts no row, a totalWeight of 0 included, whatever the
\* ledger holds.
C20_MissingFieldsRejected ==
    \A req \in MovementBodies :
        C20_LacksRequired(req)
        => LET result == PostMovementResult(req, stockMovements, LedgerDay)
           IN  /\ result.resp.status = 400
               /\ result.resp.message = "Missing required fields for movement."
               /\ result.table = stockMovements

\* Client 1 has a plastic box and product "A" in stock, and the request just
\* refused for a missing field can have been the withdrawal of one weightless
\* box with a gross weight of 0.
C20_Witness ==
    /\ resp.status = 400
    /\ resp.message = "Missing required fields for movement."
    /\ getClientStockSummary(stockMovements, 1).plasticBoxes >= 1
    /\ getProductStockForClient(stockMovements, 1, "A") >= 0
    /\ \E req \in MovementBodies :
          /\ req.type = Some("out")
          /\ req.totalWeight = Some(0)
          /\ req.plasticBoxCount = Some(1)
          /\ PostMovementResult(req, stockMovements, LedgerDay).resp = resp

----------------------------------------------------------------------------
(* C15 *)

\* A small count written in decimal.
Decimal(n) ==
    CASE n = 1 -> "1" [] n = 2 -> "2" [] n = 3 -> "3" [] n = 4 -> "4"
      [] OTHER -> "more"

\* The cached movements the claim counts for a receptionist: recorded by
\* that user, with a non-empty farmer comment, and isCommentRead false.
UnreadAnomalies(movements, receptionist) ==
    { i \in 1..Len(movements) :
        /\ movements[i].recordedByUserId = receptionist.id
        /\ movements[i].farmerComment # Null
        /\ movements[i].farmerComment # Some("")
        /\ movements[i].isCommentRead = Some(FALSE) }

\* C15: while a receptionist is logged in, the badge of the sidebar shows the
\* number of cached movements recorded by that receptionist that carry a
\* non-empty farmer comment and are unread, and there is no badge when that
\* number is 0.
C15_BadgeCountsOwnUnreadAnomalies ==
    (currentUser # Null /\ currentUser[1].role = "Receptionniste") =>
        LET n == Cardinality(UnreadAnomalies(cache, currentUser[1]))
        IN  notificationBadge(cache, currentUser) =
                IF n = 0 THEN Null ELSE Some(Decimal(n))

\* The receptionist is logged in with two cached movements carrying an unread
\* farmer comment, one recorded by the receptionist and one by the
\* administrator: the badge shows 1.
C15_Witness ==
    /\ currentUser # Null
    /\ currentUser[1].role = "Receptionniste"
    /\ Len(cache) = 2
    /\ \E i, j \in 1..2 :
          /\ cache[i].recordedByUserId = currentUser[1].id
          /\ cache[j].recordedByUserId # currentUser[1].id
          /\ cache[i].farmerComment = Some("late")
          /\ cache[j].farmerComment = Some("late")
          /\ cache[i].isCommentRead = Some(FALSE)
          /\ cache[j].isCommentRead = Some(FALSE)
    /\ notificationBadge(cache, currentUser) = Some("1")

----------------------------------------------------------------------------
(* C16 *)

\* The mark-read request p settles in this step as a failure: the network
\* fails, or the server answers with an error status.
MarkReadFails(p) ==
    \/ MarkReadNetworkFailure(p)
    \/ \E written \in BOOLEAN : MarkReadDatabaseError(p, written)
    \/ MarkReadAnswered(p) /\ resp'.status >= 400

\* The server holds the movement of that id as read.
ReadOnServer(movementId) ==
    \E i \in 1..Len(stockMovements) :
        /\ stockMovements[i].id = movementId
        /\ stockMovements[i].isCommentRead = Some(1)

\* C16: when the mark-read request of a movement fails, by a network failure
\* or by an error answer of the server, the cached isCommentRead of that
\* movement is false afterwards; so a cached movement that shows read, with
\* no mark-read request in flight for it, is read on the server.
C16_FailedMarkReadReverts ==
    /\ [][\A p \in pending :
            (p.attached /\ MarkReadFails(p)) =>
                cache'[findIndex(cache', p.id)].isCommentRead = Some(FALSE)]_vars
    /\ [](\A i \in 1..Len(cache) :
            ( /\ cache[i].isCommentRead = Some(TRUE)
              /\ \A p \in pending : p.id # cache[i].id )
            => ReadOnServer(cache[i].id))

----------------------------------------------------------------------------
(* C21 *)

\* The PATCH bodies the answer is examined for: those the API is sent, an
\* empty body, and bodies whose fields have the wrong JSON type.
C21_PatchBodies ==
    ApiPatchBodies
      \cup { PatchBody(<<>>, <<>>),
             PatchBody(<<>>, JString("true")),
             PatchBody(<<>>, JNumber(1)),
             PatchBody(JBoolean(TRUE), JNumber(0)) }

\* The body carries a field the handler writes.
C21_HasField(body) ==
    \/ typeof(body.farmerComment) = "string"
    \/ typeof(body.isCommentRead) = "boolean"

\* C21: a PATCH /api/movements/:id whose body has neither a string
\* farmerComment nor a boolean isCommentRead is answered 400, for a known
\* and for an unknown id; a PATCH with such a field and an id that matches
\* no row is answered 404; in both cases the ledger is left as it was.
C21_PatchRefusals ==
    \A id \in 1..(MaxApiRows + 1), body \in C21_PatchBodies :
        LET result == PatchMovementResult(id, body, stockMovements)
        IN  /\ ~C21_HasField(body) =>
                /\ result.resp.status = 400
                /\ result.resp.message = "No fields to update"
                /\ result.table = stockMovements
            /\ (C21_HasField(body) /\ ~HasMovement(stockMovements, id)) =>
                /\ result.resp.status = 404
                /\ result.resp.message = "Movement not found."
                /\ result.table = stockMovements
            /\ result.resp.status \in {400, 404} <=>
                  (~C21_HasField(body) \/ ~HasMovement(stockMovements, id))

\* A PATCH was answered 404 while the ledger holds a row with a farmer
\* comment, and a body with a numeric farmerComment is among those examined
\* on that ledger.
C21_Witness ==
    /\ resp.status = 404
    /\ Len(stockMovements) >= 1
    /\ stockMovements[1].farmerComment = Some("late")
    /\ ~HasMovement(stockMovements, MaxApiRows + 1)
    /\ \E body \in C21_PatchBodies :
          /\ typeof(body.farmerComment) = "number"
          /\ PatchMovementResult(1, body, stockMovements).resp.status = 400

----------------------------------------------------------------------------
(* C22 *)

\* C22: whenever the cache of the browser holds the rows of the
\* stockMovements table, the browser's getClientStockSummary and
\* getProductStockForClient return on the cache, for every client and
\* product, what the server's functions of the same names return on the
\* table.
C22_ClientAndServerFoldsAgree ==
    cache = GetMovements(stockMovements) =>
        \A c \in ClientIds :
            /\ ui_getClientStockSummary(cache, c)
                 = getClientStockSummary(stockMovements, c)
            /\ \A p \in ProductNames \cup {"B"} :
                  ui_getProductStockForClient(cache, c, p)
                    = getProductStockForClient(stockMovements, c, p)

\* The page has loaded a table that holds rows of both clients, a withdrawal
\* and a row with wood boxes; on the cache client 1 has a non-zero stock of
\* "a", no stock of "A" and a non-zero balance of wood boxes, and the server
\* has just answered with the same summary of client 1.
C22_Witness ==
    /\ ~isAppLoading
    /\ cache = GetMovements(stockMovements)
    /\ Len(cache) = MaxFoldRows
    /\ \E i, j, k \in 1..Len(cache) :
          /\ cache[i].clientId = 1
          /\ cache[j].clientId = 2
          /\ cache[k].type = "out"
          /\ cache[i].woodBoxCount # Null
    /\ ui_getProductStockForClient(cache, 1, "a") # 0
    /\ ui_getProductStockForClient(cache, 1, "A") = 0
    /\ ui_getClientStockSummary(cache, 1).woodBoxes # 0
    /\ resp.message = "summary"
    /\ resp.body[1].clientId = 1
    /\ resp.body[1].value = ui_getClientStockSummary(cache, 1)

----------------------------------------------------------------------------
(* C23 *)

\* A cached movement and a stored row have the same field values,
\* isCommentRead compared by truthiness.
C23_SameMovement(cached, row) ==
    /\ [cached EXCEPT !.isCommentRead = Null] = [row EXCEPT !.isCommentRead = Null]
    /\ (cached.isCommentRead = Some(TRUE)) = NotNot(row.isCommentRead)

\* C23: in a session that is the only writer and in which every request
\* succeeds, once the page has loaded and every request sent has been
\* answered, the cache holds exactly the rows of the ledger with the same
\* field values.
C23_CacheMirrorsLedger ==
    (~isAppLoading /\ pending = {}) =>
        /\ Len(cache) = Len(stockMovements)
        /\ \A i \in 1..Len(cache) : C23_SameMovement(cache[i], stockMovements[i])

----------------------------------------------------------------------------
(* C24 *)

\* C24: every stored row has type 'in' or 'out', and a POST /api/movements
\* whose type is another non-empty string is refused and stores nothing.
C24_TypeIsInOrOut ==
    /\ \A i \in 1..Len(stockMovements) : stockMovements[i].type \in {"in", "out"}
    /\ \A req \in LedgerBodies :
          (TruthyStr(req.type) /\ req.type[1] \notin {"in", "out"})
          => LET result == PostMovementResult(req, stockMovements, LedgerDay)
             IN  result.resp.status = 400 /\ result.table = stockMovements

----------------------------------------------------------------------------
(* C25 *)

\* The stored box counts and unit weights are absent or non-negative.
C25_NonNegativeBoxes(table) ==
    \A i \in 1..Len(table) :
        \A f \in {"plasticBoxCount", "plasticBoxWeight", "woodBoxCount", "woodBoxWeight"} :
            table[i][f] = Null \/ table[i][f][1] >= 0

\* C25: when requests are processed one at a time, with types 'in' / 'out'
\* and non-negative box counts and unit weights, the gross-weight balance
\* summary.totalWeight of every client is >= 0.
C25_GrossBalanceNonNegative ==
    (OnlyInOut(stockMovements) /\ C25_NonNegativeBoxes(stockMovements)) =>
        \A c \in ClientIds : getClientStockSummary(stockMovements, c).totalWeight >= 0

----------------------------------------------------------------------------
(* C26 *)

\* C26: every movement row's clientId is the id of a stored client and its
\* recordedByUserId the id of a stored user.
C26_ReferencesExist ==
    \A i \in 1..Len(stockMovements) :
        /\ \E j \in 1..Len(clients) : clients[j].id = stockMovements[i].clientId
        /\ \E u \in users : u.id = stockMovements[i].recordedByUserId

----------------------------------------------------------------------------
(* C27 *)

\* C27: under any sequence of POST, PUT and DELETE /api/users requests at
\* least one user with role 'Admin' exists.
C27_AnAdminExists == \E u \in users : u.role = "Admin"

----------------------------------------------------------------------------
(* C28 *)

\* C28: a user with a non-null clientId has role 'Agriculteur'; a PUT
\* /api/users/:id that is answered 200 leaves on its row the clientId of the
\* body when the body's role is 'Agriculteur' and null otherwise.
C28_ClientIdOnlyOnFarmers ==
    /\ \A u \in users : u.clientId # Null => u.role = "Agriculteur"
    /\ \A id \in 1..(MaxUserId + 1), body \in PutUserBodies :
          LET result == PutUserResult(id, body, users)
          IN  /\ \A u \in result.users : u.clientId # Null => u.role = "Agriculteur"
              /\ result.resp.status = 200 =>
                    UserById(result.users, id).clientId =
                        IF body.role = Some("Agriculteur") THEN body.clientId ELSE Null

\* A farmer linked to client 1 is stored, and the PUT just answered renamed
\* another user with a body that names client 1: the answer shows no client.
C28_Witness ==
    /\ \E u \in users : u.role = "Agriculteur" /\ u.clientId = Some(1)
    /\ resp.status = 200
    /\ resp.body[1].name = "Robert"
    /\ resp.body[1].role # "Agriculteur"
    /\ resp.body[1].clientId = Null

----------------------------------------------------------------------------
(* C29 *)

\* A PUT body with none of the six fields.
C29_EmptyBody == UserBody(Null, Null, Null, Null, Null, Null)

\* C29: a PUT /api/users/:id whose body has none of name, username, role,
\* status, clientId, password is answered 400 'No fields to update.' and
\* leaves the users table as it was.
C29_EmptyPutRefused ==
    \A id \in 1..(MaxUserId + 1) :
        LET result == PutUserResult(id, C29_EmptyBody, users)
        IN  /\ result.resp.status = 400
            /\ result.resp.message = "No fields to update."
            /\ result.users = users

----------------------------------------------------------------------------
(* C30 *)

\* C30: currentUser becomes non-null only by a handleLogin whose POST
\* /api/login the server answered 200, and the user it becomes is not
\* suspended.
C30_CurrentUserOnlyByLogin ==
    [][ (currentUser = Null /\ currentUser' # Null) =>
            /\ \E login \in UiLoginData :
                  /\ handleLogin(login[1], login[2])
                  /\ LoginResult(login[1], users).status = 200
            /\ \A u \in users : u.id = currentUser'[1].id => u.status # "Suspended" ]_vars

====
